---- MODULE Spec2Model ----
(***************************************************************************)
(* Model of the roadmap dashboard server (src/roadmap-dashboard/server.js): *)
(* the lifecycle controller (start / stop / exit of the managed agent       *)
(* process), process discovery (findRunningAgents, verifyProcess,           *)
(* getExternalAgentPid), the event stream (/api/stream) and the log tail    *)
(* watcher (watchLogFile).                                                  *)
(*                                                                          *)
(* Node runs the handlers on one thread: the code between two awaits runs   *)
(* atomically, so every action below is one such stretch.  An awaited OS    *)
(* command is one action (the command reads the process table and its       *)
(* continuation runs up to the next command); the commands of one           *)
(* getExternalAgentPid() call of the start handler are taken together.  The *)
(* continuation after the last command of a handler is an action of its     *)
(* own, because other handlers run between the command and the delivery of  *)
(* its result.                                                              *)
(***************************************************************************)
EXTENDS Integers, Sequences, FiniteSets, TLC

(* ------------------------------ bounds --------------------------------- *)
\* number of agent processes started outside the dashboard
NExt == 1
\* number of POST /api/agent/start and /api/agent/stop requests; each start
\* spawns at most one process
NReq == 3
\* number of GET /api/stream subscribers
NSub == 2
\* number of delivered events remembered per subscriber
MaxOut == 3
\* number of chunks the managed processes write to their pipes
MaxChunks == 3
\* number of log files LOG_DIR can hold
NFiles == 3
\* number of times the clock moves between the steps of a stream handler
MaxTicks == 1
\* largest MAX_LOOPS the agent script is run with
MaxLoopsSetting == 2
\* number of times one run of the agent script calls process_user_tasks or
\* run_task at most
MaxExecuted == 4
\* number of user tasks and of roadmap tasks waiting at most
MaxWaiting == 2
\* number of roadmap tasks the parallel instances work on
NTasks == 2
\* number of instances of the agent script started
NInst == 3
\* number of task sections in ROADMAP.md
NSections == 2

Handles == 1..NReq
\* the pid of the process behind handle h is h
ExtPids == (NReq + 1)..(NReq + NExt)
Pids == Handles \cup ExtPids
\* the requests, numbered in the order they arrive
Reqs == 1..NReq
Subs == 1..NSub

VARIABLES
  os,            \* OS process table: pid -> "free" | "agent" (the agent script)
                 \* | "worker" (a claude process started by an agent script)
                 \* | "other" (a process that is no agent) | "dead"
  sent,          \* the signals <<pid, signal>> sent by the latest step of the
                 \* lifecycle controller (history)
  last,          \* the answer given by the latest step of a handler (history)
  child,         \* the ChildProcess objects returned by spawn()
  agentProcess,  \* let agentProcess (0 is null, else a handle)
  timers,        \* pending setTimeout callbacks of the stop handler
  req,           \* the invocations of the start and stop handlers
  sub,           \* the invocations of the stream handler
  file,          \* the watched log file: exists, content
  tail,          \* the variables of one watchLogFile call and of its StatWatcher
  hist,          \* history of the watched file: ops counts the changes made
                 \* to it, grewOnly says that it was never rewritten, removed
                 \* or created, faults counts the reads that failed
  client,        \* the dashboard page in one browser: its EventSource and
                 \* its timers
  pipe,          \* the stdout and stderr pipes of the spawned children: q
                 \* holds the chunks written and not yet read by the server,
                 \* n counts the chunks written so far; got (history) lists
                 \* the chunks written to each subscriber as log events
  dir,           \* LOG_DIR and one stream handler choosing the file to
                 \* watch: mtime of each log file (Absent when there is
                 \* none), the clock now, the listing the latest
                 \* getActiveLogFiles call returned and the file picked
  agent,         \* one run of roadmap-agent.sh: the position in main, its
                 \* settings and counters, the user tasks and roadmap tasks
                 \* waiting, and executed (history), the number of tasks it
                 \* has run
  par,           \* instances of roadmap-agent.sh running in parallel: the
                 \* lock directories of LOCK_DIR, the status of the roadmap
                 \* tasks, and each instance's position
  road           \* ROADMAP.md as the script parses it: status, priority and
                 \* dependencies of each task section, in file order; found
                 \* is what the latest find_next_task printed (0 is empty)

lifeVars == <<os, sent, last, child, agentProcess, timers, req>>
serverVars == <<os, sent, last, child, agentProcess, timers, req, sub>>
watchVars == <<file, tail, hist>>
\* the variables outside the server
farVars == <<client, pipe, dir, agent, par, road>>
vars == <<os, sent, last, child, agentProcess, timers, req, sub, file, tail, hist,
          client, pipe, dir, agent, par, road>>

\* the answer of a handler: which handler, HTTP status, which error, the pid
\* it names
Resp(op, code, error, pid) ==
  [op |-> op, code |-> code, error |-> error, pid |-> pid]
NoResp == Resp("none", 0, "none", 0)
\* the answer of the status handler
StatusResp(running, pid, isExternal, externalAgents) ==
  [op |-> "status", code |-> 200, error |-> "none", pid |-> pid,
   running |-> running, isExternal |-> isExternal,
   externalAgents |-> externalAgents]
\* one invocation of the start, stop or status handler.  extPid is the result
\* of getExternalAgentPid(), arg the externalPid of a stop request (0 when
\* none), afterStop (history) the handle that had been asked to stop and was
\* still alive when a start request arrived, else 0; isRunning and agents
\* (allAgents, then verifiedAgents) are locals of the status handler
IdleReq == [pc |-> "idle", extPid |-> 0, afterStop |-> 0, arg |-> 0,
            isRunning |-> FALSE, agents |-> <<>>]
DoneReq == [IdleReq EXCEPT !.pc = "done"]
\* one invocation of the stream handler.  connected: the request has not
\* emitted 'close'; listening: onLog/onStart/onExit are registered; isClosed,
\* watcher, registered (logWatchers has res), hooked (cleanup will run on
\* 'close') and statListener (its listener on the StatWatcher of the log
\* file) belong to the watchLogFile call made for it; age (history) counts
\* the heartbeat intervals it has been open for
ClosedSub == [pc |-> "closed", connected |-> TRUE, listening |-> FALSE,
              allAgents |-> <<>>, agents |-> <<>>, failed |-> FALSE, extPid |-> 0, out |-> <<>>,
              isClosed |-> FALSE, watcher |-> FALSE, registered |-> FALSE,
              hooked |-> FALSE, statListener |-> 0, age |-> 0]

InitTail == [opened |-> FALSE, connected |-> TRUE,
             position |-> 0, retryCount |-> 0, isClosed |-> FALSE,
             watcher |-> FALSE, registered |-> FALSE,
             listeners |-> 0, statBusy |-> 0, statSize |-> 0,
             retryTimers |-> 0, readTimers |-> 0, out |-> <<>>]
NoFile == [exists |-> FALSE, content |-> <<>>]
InitHist == [ops |-> 0, grewOnly |-> TRUE, faults |-> 0, pollErr |-> FALSE]
\* the page after load.  readyState is that of eventSource ("none" when the
\* variable is null); conn is the stream request the server received for it
\* (0 before it arrives) and got the number of its events the page has
\* handled; reconnectTimeout is the delay in ms of the pending reconnect timer
\* (0 when there is none); statsTimer is the pending setTimeout(loadStats,
\* 500) and fetching the pending fetch of loadStats; afterExit (history) says
\* that the page has handled an exit event and no status answer since;
\* sources counts the EventSource objects made and not closed, timers the
\* reconnect timers set and neither cleared nor fired
InitClient == [readyState |-> "none", conn |-> 0, got |-> 0,
               reconnectAttempts |-> 0, reconnectTimeout |-> 0,
               sources |-> 0, timers |-> 0,
               statsTimer |-> FALSE, fetching |-> FALSE, afterExit |-> FALSE]

InitPipe == [q |-> [h \in Handles |-> [stdout |-> <<>>, stderr |-> <<>>]],
             n |-> 0, got |-> [s \in Subs |-> <<>>]]

LogFiles == 1..NFiles
\* no file of that name in LOG_DIR
Absent == -1
\* Date.now() when the directory is first listed
Now0 == 4000000
InitDir == [mtime |-> [f \in LogFiles |-> Absent], now |-> Now0, ticks |-> 0,
            pc |-> "idle", listing |-> <<>>, picked |-> 0]

\* the script at the head of main's loop: local loop_count=0 ...; arithErrexit
\* says whether the bash running the script applies set -e to a (( ))
\* command (bash 4.1 and later do, earlier ones do not); jq is the outcome of
\* command -v jq
InitAgent == [pc |-> "top", MAX_LOOPS |-> 0, SINGLE_MODE |-> FALSE,
              arithErrexit |-> FALSE, jq |-> TRUE,
              loop_count |-> 0, success_count |-> 0, fail_count |-> 0,
              userTasks |-> 0, pending |-> 0, executed |-> 0]

Tasks == 1..NTasks
Insts == 1..NInst
\* pid of a lock directory without a pid file
NoPid == 0
NoLock == [exists |-> FALSE, pid |-> NoPid]
\* an instance not started yet: todo are the lock directories its
\* cleanup_stale_locks has still to look at, seen the pid it has read, task
\* the task it is running, holds (history) the tasks it has locked and not
\* released; snap is the content of ROADMAP.md the running sed -i has read
\* (<<>> when none runs) and new the status it puts into it
OffInst == [pc |-> "off", todo |-> {}, seen |-> NoPid, task |-> 0, holds |-> {},
            snap |-> <<>>, new |-> "none"]
Sections == 1..NSections
InitRoad == [status |-> [t \in Sections |-> "PENDING"],
             priority |-> [t \in Sections |-> 0],
             deps |-> [t \in Sections |-> {}],
             pc |-> "idle", found |-> 0]

InitPar == [arithErrexit |-> FALSE, DRY_RUN |-> FALSE,
            lock |-> [t \in Tasks |-> NoLock],
            status |-> [t \in Tasks |-> "PENDING"],
            inst |-> [i \in Insts |-> OffInst]]

\* the server after start-up: nothing spawned, no request, no subscriber
ServerInit ==
  /\ os = [p \in Pids |-> "free"]
  /\ sent = {}
  /\ last = NoResp
  /\ child = [h \in Handles |-> [spawned |-> FALSE, killed |-> FALSE, exited |-> FALSE]]
  /\ agentProcess = 0
  /\ timers = {}
  /\ req = [r \in Reqs |-> IdleReq]
  /\ sub = [s \in Subs |-> ClosedSub]

\* ... and no log file watched
Init ==
  /\ ServerInit
  /\ file = NoFile
  /\ tail = InitTail
  /\ hist = InitHist
  /\ client = InitClient
  /\ pipe = InitPipe
  /\ dir = InitDir
  /\ agent = InitAgent
  /\ par = InitPar
  /\ road = InitRoad

(* ------------------------- process discovery --------------------------- *)
MinPid(S) == CHOOSE p \in S : \A q \in S : p <= q

\* the guard with the killed flag read the wrong way round
IsRunningInverted == agentProcess # 0 /\ child[agentProcess].killed

\* agentProcess !== null && !agentProcess.killed
IsRunning == agentProcess # 0 /\ ~child[agentProcess].killed

\* parseInt of a text that does not start with a digit
NaN == -1

\* the words of the output of ps, split at white space
Word(text) == [digits |-> FALSE, val |-> 0, text |-> text]
Num(n) == [digits |-> TRUE, val |-> n, text |-> ""]

\* parseInt(parts[i])
ParseInt(word) == IF word.digits THEN word.val ELSE NaN

\* the command name of a process
Comm(p) == IF os[p] = "worker" THEN "claude" ELSE "bash"

\* psOut.trim().split(/\s+/) for `ps -p p -o pid,ppid,comm,args`: the first
\* form of the command succeeds for a live process and prints the header
\* line before the line of the process
PsParts(p) ==
  <<Word("PID"), Word("PPID"), Word("COMMAND"), Word("COMMAND"),
    Num(p), Num(0), Word(Comm(p)), Word("args")>>

\* the record read from the line of the process instead of the header line
PsRecordOfProcessLine(p) ==
  LET parts == PsParts(p)
  IN [pid |-> ParseInt(parts[5]), comm |-> parts[7].text]

\* the record getProcessTree pushes for process p: parts[0] is the pid,
\* parts[2] the command name
PsRecord(p) ==
  LET parts == PsParts(p)
  IN [pid |-> ParseInt(parts[1]), comm |-> parts[3].text]

\* the lines of pgrep -fl "roadmap-agent.sh" and of
\* pgrep -fl "claude.*roadmap|claude.*PROMPT"
ScriptPids == {q \in Pids : os[q] = "agent"}
ClaudePids == {q \in Pids : os[q] = "worker"}

\* pgrep -P p: the sub-workers are children of the first agent script
Children(p) == IF ScriptPids # {} /\ p = MinPid(ScriptPids) THEN ClaudePids ELSE {}

\* a set of pids in the order pgrep lists them
RECURSIVE InOrder(_)
InOrder(S) == IF S = {} THEN <<>> ELSE <<MinPid(S)>> \o InOrder(S \ {MinPid(S)})

\* getProcessTree(p): the process, then its children
RECURSIVE TreeOfAll(_)
TreeOfAll(pids) ==
  IF pids = <<>> THEN <<>>
  ELSE <<PsRecord(Head(pids))>> \o TreeOfAll(InOrder(Children(Head(pids))))
         \o TreeOfAll(Tail(pids))

\* the record made of proc for the result
Marked(proc) ==
  [pid |-> proc.pid,
   isExternal |-> (agentProcess = 0 \/ proc.pid # agentProcess),
   isSubProcess |-> (proc.comm = "claude")]

\* the unique Map: the first record of every pid, marked, in the order of
\* insertion (a Map finds the key NaN again)
RECURSIVE Unique(_, _)
Unique(procs, seen) ==
  IF procs = <<>> THEN <<>>
  ELSE IF Head(procs).pid \in seen THEN Unique(Tail(procs), seen)
  ELSE <<Marked(Head(procs))>> \o Unique(Tail(procs), seen \cup {Head(procs).pid})

\* findRunningAgents(): the two pgrep commands, the process trees of their
\* pids, deduplicated by the pid parsed from the ps output; isExternal is
\* computed against the handle tracked when the function returns
AllProcesses == TreeOfAll(InOrder(ScriptPids) \o InOrder(ClaudePids))

\* findRunningAgents() returning a record for every entry of allProcesses
FindRunningAgentsKeepAll == [i \in DOMAIN AllProcesses |-> Marked(AllProcesses[i])]

FindRunningAgents == Unique(AllProcesses, {})

\* the shell command kill -0 pid: succeeds when a process has that pid
KillProbe(p) == p \in Pids /\ os[p] \notin {"free", "dead"}

\* verifyProcess(pid)
VerifyProcess(p) == KillProbe(p)

\* the loop of getExternalAgentPid that keeps the agents verifyProcess accepts
Verified(agents) == SelectSeq(agents, LAMBDA a : VerifyProcess(a.pid))

\* the part of getExternalAgentPid after the kill -0 probes: the first
\* external agent, else the first agent
GetExternalAgentPid(verifiedAgents) ==
  IF verifiedAgents = <<>> THEN 0
  ELSE LET external == SelectSeq(verifiedAgents, LAMBDA a : a.isExternal)
       IN IF external # <<>> THEN external[1].pid ELSE verifiedAgents[1].pid

(* --------------------------- agentEvents ------------------------------- *)
\* sendEvent: res.write of one event; out remembers the first MaxOut of those
\* written while the subscriber is connected
SendEvent(rec, kind) ==
  IF rec.connected /\ Len(rec.out) < MaxOut
  THEN [rec EXCEPT !.out = Append(@, kind)] ELSE rec

\* agentEvents.emit(kind): every registered onLog/onStart/onExit runs
Emit(kind) ==
  sub' = [s \in Subs |-> IF sub[s].listening THEN SendEvent(sub[s], kind) ELSE sub[s]]

(* ----------------------------- signals --------------------------------- *)
\* delivery of a signal to pid p: SIGKILL ends a live process at once,
\* SIGTERM leaves it running until it exits by itself (ProcDie)
Signal(p, sig) ==
  /\ sent' = {<<p, sig>>}
  /\ os' = IF sig = "KILL" /\ os[p] = "agent" THEN [os EXCEPT ![p] = "dead"] ELSE os

\* ChildProcess.kill(sig) leaving the killed flag as it is
ChildKillNoFlag(h, sig) ==
  /\ Signal(h, sig)
  /\ UNCHANGED child

\* ChildProcess.kill(sig): signals the child and sets its killed flag
ChildKill(h, sig) ==
  /\ Signal(h, sig)
  /\ child' = [child EXCEPT ![h].killed = TRUE]

(* ------------------- POST /api/agent/start ----------------------------- *)
\* the tracked child when it has been asked to stop and still runs, else 0
Draining ==
  IF agentProcess # 0 /\ child[agentProcess].killed /\ os[agentProcess] = "agent"
  THEN agentProcess ELSE 0

NextHandle == Cardinality({h \in Handles : child[h].spawned}) + 1

\* the entry of the handler going on without the call of
\* getExternalAgentPid()
StartBeginNoFind(r) ==
  /\ req[r].pc = "idle"
  /\ \A q \in Reqs : q < r => req[q].pc # "idle"
  /\ IF IsRunning
     THEN /\ req' = [req EXCEPT ![r] = DoneReq]
          /\ last' = Resp("start", 400, "managed", 0)
     ELSE /\ req' = [req EXCEPT ![r].pc = "decide", ![r].afterStop = Draining]
          /\ last' = NoResp
  /\ sent' = {}
  /\ UNCHANGED <<os, child, agentProcess, timers, sub>>
  /\ UNCHANGED <<watchVars, farVars>>

\* entry of the handler up to the await of getExternalAgentPid()
StartBegin(r) ==
  /\ req[r].pc = "idle"
  /\ \A q \in Reqs : q < r => req[q].pc # "idle"
  /\ IF IsRunning
     THEN /\ req' = [req EXCEPT ![r] = DoneReq]
          /\ last' = Resp("start", 400, "managed", 0)
     ELSE /\ req' = [req EXCEPT ![r].pc = "find", ![r].afterStop = Draining]
          /\ last' = NoResp
  /\ sent' = {}
  /\ UNCHANGED <<os, child, agentProcess, timers, sub>>
  /\ UNCHANGED <<watchVars, farVars>>

\* await getExternalAgentPid(): the ps enumeration and the kill -0 probes of
\* its result, taken at one instant of the process table
StartGetExternalPid(r) ==
  /\ req[r].pc = "find"
  /\ LET agents == FindRunningAgents
         verifiedAgents == Verified(agents)
     IN req' = [req EXCEPT ![r].extPid = GetExternalAgentPid(verifiedAgents),
                           ![r].pc = "decide"]
  /\ sent' = {}
  /\ last' = NoResp /\ UNCHANGED <<os, child, agentProcess, timers, sub>>
  /\ UNCHANGED <<watchVars, farVars>>

\* the handler resumes with externalPid: it answers 400 or spawns
StartFinish(r) ==
  /\ req[r].pc = "decide"
  /\ IF req[r].extPid # 0
     THEN /\ last' = Resp("start", 400, "external", req[r].extPid)
          /\ UNCHANGED <<os, child, agentProcess, sub>>
     ELSE /\ child' = [child EXCEPT ![NextHandle].spawned = TRUE]
          /\ os' = [os EXCEPT ![NextHandle] = "agent"]
          /\ agentProcess' = NextHandle
          /\ Emit("start")
          /\ last' = Resp("start", 200, "none", NextHandle)
  /\ req' = [req EXCEPT ![r] = DoneReq]
  /\ sent' = {}
  /\ UNCHANGED timers
  /\ UNCHANGED <<watchVars, farVars>>

(* -------------------- POST /api/agent/stop ----------------------------- *)
\* the handler called without externalPid (arg = 0): no await on this path;
\* with externalPid: up to the first awaited kill -0
StopBegin(r, arg) ==
  /\ req[r].pc = "idle"
  /\ \A q \in Reqs : q < r => req[q].pc # "idle"
  /\ IF arg # 0
     THEN /\ req' = [req EXCEPT ![r].pc = "check", ![r].arg = arg]
          /\ sent' = {}
          /\ last' = NoResp /\ UNCHANGED <<os, child, timers>>
     ELSE IF ~IsRunning
     THEN /\ req' = [req EXCEPT ![r] = DoneReq]
          /\ last' = Resp("stop", 400, "nomanaged", 0)
          /\ sent' = {}
          /\ UNCHANGED <<os, child, timers>>
     ELSE /\ ChildKill(agentProcess, "TERM")
          /\ timers' = timers \cup {[kind |-> "managed", target |-> agentProcess]}
          /\ req' = [req EXCEPT ![r] = DoneReq]
          /\ last' = Resp("stop", 200, "none", agentProcess)
  /\ UNCHANGED <<agentProcess, sub>>
  /\ UNCHANGED <<watchVars, farVars>>

\* the stop handler without its existence check
StopCheckSkipped(r) ==
  /\ req[r].pc = "check"
  /\ req' = [req EXCEPT ![r].pc = "term"]
  /\ sent' = {}
  /\ last' = NoResp /\ UNCHANGED <<os, child, agentProcess, timers, sub>>
  /\ UNCHANGED <<watchVars, farVars>>

\* await execAsync(`kill -0 ${externalPid}`)
StopCheck(r) ==
  /\ req[r].pc = "check"
  /\ IF KillProbe(req[r].arg)
     THEN /\ req' = [req EXCEPT ![r].pc = "term"]
          /\ last' = NoResp
     ELSE /\ req' = [req EXCEPT ![r] = DoneReq]
          /\ last' = Resp("stop", 404, "notfound", req[r].arg)
  /\ sent' = {}
  /\ UNCHANGED <<os, child, agentProcess, timers, sub>>
  /\ UNCHANGED <<watchVars, farVars>>

\* await execAsync(`kill -TERM ${externalPid}`), then setTimeout and the answer
StopTerm(r) ==
  /\ req[r].pc = "term"
  /\ IF KillProbe(req[r].arg)
     THEN /\ Signal(req[r].arg, "TERM")
          /\ timers' = timers \cup {[kind |-> "external", target |-> req[r].arg]}
          /\ last' = Resp("stop", 200, "none", req[r].arg)
     ELSE /\ last' = Resp("stop", 404, "notfound", req[r].arg)
          /\ sent' = {}
          /\ UNCHANGED <<os, timers>>
  /\ req' = [req EXCEPT ![r] = DoneReq]
  /\ UNCHANGED <<child, agentProcess, sub>>
  /\ UNCHANGED <<watchVars, farVars>>

\* the setTimeout callbacks (5000 ms after the stop).  The callback of the
\* managed path reads the global agentProcess when it runs; target records
\* which handle the stop had signalled and is not read by the callback.
KillTimer(t) ==
  /\ t \in timers
  /\ timers' = timers \ {t}
  /\ IF t.kind = "managed"
     THEN IF IsRunning
          THEN ChildKill(agentProcess, "KILL")
          ELSE sent' = {} /\ UNCHANGED <<os, child>>
     ELSE /\ IF KillProbe(t.target)
             THEN Signal(t.target, "KILL")
             ELSE sent' = {} /\ UNCHANGED os
          /\ UNCHANGED child
  /\ last' = NoResp /\ UNCHANGED <<agentProcess, req, sub>>
  /\ UNCHANGED <<watchVars, farVars>>

(* ------------------------- GET /api/status ----------------------------- *)
\* the entry of the handler taking the managed process as running whatever
\* agentProcess holds
StatusBeginTracked(r) ==
  /\ req[r].pc = "idle"
  /\ \A q \in Reqs : q < r => req[q].pc # "idle"
  /\ req' = [req EXCEPT ![r].pc = "sfind", ![r].isRunning = TRUE]
  /\ sent' = {}
  /\ last' = NoResp /\ UNCHANGED <<os, child, agentProcess, timers, sub>>
  /\ UNCHANGED <<watchVars, farVars>>

\* entry of the handler: isRunning is read once, before the first await
StatusBegin(r) ==
  /\ req[r].pc = "idle"
  /\ \A q \in Reqs : q < r => req[q].pc # "idle"
  /\ req' = [req EXCEPT ![r].pc = "sfind", ![r].isRunning = IsRunning]
  /\ sent' = {}
  /\ last' = NoResp /\ UNCHANGED <<os, child, agentProcess, timers, sub>>
  /\ UNCHANGED <<watchVars, farVars>>

\* const allAgents = await findRunningAgents()
StatusFind(r) ==
  /\ req[r].pc = "sfind"
  /\ req' = [req EXCEPT ![r].pc = "sverify", ![r].agents = FindRunningAgents]
  /\ sent' = {}
  /\ last' = NoResp /\ UNCHANGED <<os, child, agentProcess, timers, sub>>
  /\ UNCHANGED <<watchVars, farVars>>

\* the verifyProcess loop over allAgents
StatusVerify(r) ==
  /\ req[r].pc = "sverify"
  /\ req' = [req EXCEPT ![r].pc = "sext", ![r].agents = Verified(req[r].agents)]
  /\ sent' = {}
  /\ last' = NoResp /\ UNCHANGED <<os, child, agentProcess, timers, sub>>
  /\ UNCHANGED <<watchVars, farVars>>

\* const externalPid = await getExternalAgentPid()
StatusGetExternalPid(r) ==
  /\ req[r].pc = "sext"
  /\ req' = [req EXCEPT ![r].pc = "sanswer",
                        ![r].extPid = GetExternalAgentPid(Verified(FindRunningAgents))]
  /\ sent' = {}
  /\ last' = NoResp /\ UNCHANGED <<os, child, agentProcess, timers, sub>>
  /\ UNCHANGED <<watchVars, farVars>>

\* hasExternalAgent and res.json(...): agentProcess.pid is read again here,
\* and reading it throws when isRunning was true and the exit handler has set
\* agentProcess to null since
StatusAnswer(r) ==
  /\ req[r].pc = "sanswer"
  /\ LET isRunning == req[r].isRunning
         externalPid == req[r].extPid
         throws == isRunning /\ agentProcess = 0
         hasExternalAgent ==
           externalPid # 0 /\ (~isRunning \/ externalPid # agentProcess)
         shown == SelectSeq(req[r].agents, LAMBDA a : a.isExternal \/ ~isRunning)
     IN last' = IF throws THEN Resp("status", 0, "throws", 0)
                ELSE StatusResp(isRunning \/ hasExternalAgent,
                                IF isRunning THEN agentProcess
                                ELSE IF hasExternalAgent THEN externalPid ELSE 0,
                                hasExternalAgent /\ ~isRunning,
                                [i \in DOMAIN shown |-> shown[i].pid])
  /\ req' = [req EXCEPT ![r] = DoneReq]
  /\ sent' = {}
  /\ UNCHANGED <<os, child, agentProcess, timers, sub>>
  /\ UNCHANGED <<watchVars, farVars>>

(* ------------------------- the environment ----------------------------- *)
\* a live process ends (by itself or because of a SIGTERM it received)
ProcDie(p) ==
  /\ os[p] \in {"agent", "worker", "other"}
  /\ os' = [os EXCEPT ![p] = "dead"]
  /\ sent' = {}
  /\ last' = NoResp /\ UNCHANGED <<child, agentProcess, timers, req, sub>>
  /\ UNCHANGED <<watchVars, farVars>>

\* somebody starts the agent script outside the dashboard
ExtStart(p) ==
  /\ p \in ExtPids
  /\ os[p] = "free"
  /\ \A q \in ExtPids : q < p => os[q] # "free"
  /\ os' = [os EXCEPT ![p] = "agent"]
  /\ sent' = {}
  /\ last' = NoResp /\ UNCHANGED <<child, agentProcess, timers, req, sub>>
  /\ UNCHANGED <<watchVars, farVars>>

\* a running agent script starts a claude process
WorkerStart(p) ==
  /\ p \in ExtPids
  /\ os[p] = "free"
  /\ \A q \in ExtPids : q < p => os[q] # "free"
  /\ ScriptPids # {}
  /\ os' = [os EXCEPT ![p] = "worker"]
  /\ sent' = {}
  /\ last' = NoResp /\ UNCHANGED <<child, agentProcess, timers, req, sub>>
  /\ UNCHANGED <<watchVars, farVars>>

\* the OS gives the pid of a process that has ended to a new process that is
\* no agent
PidReuse(p) ==
  /\ p \in ExtPids
  /\ os[p] = "dead"
  /\ os' = [os EXCEPT ![p] = "other"]
  /\ sent' = {}
  /\ last' = NoResp /\ UNCHANGED <<child, agentProcess, timers, req, sub>>
  /\ UNCHANGED <<watchVars, farVars>>

\* agentProcess.on('exit'): runs once per child, after its process ended
ExitEvent(h) ==
  /\ child[h].spawned /\ ~child[h].exited
  /\ os[h] = "dead"
  /\ child' = [child EXCEPT ![h].exited = TRUE]
  /\ Emit("exit")
  /\ agentProcess' = 0
  /\ sent' = {}
  /\ last' = NoResp /\ UNCHANGED <<os, timers, req>>
  /\ UNCHANGED <<watchVars, farVars>>

\* agentProcess.stdout/stderr.on('data'): a live child writes a chunk
Output(h) ==
  /\ child[h].spawned /\ os[h] = "agent"
  /\ \E s \in Subs : sub[s].listening /\ Len(sub[s].out) < MaxOut
  /\ Emit("log")
  /\ UNCHANGED lifeVars
  /\ UNCHANGED <<watchVars, farVars>>

(* ------------------------ GET /api/stream ------------------------------ *)
\* the synchronous part: the three listeners are registered, the async
\* status block starts with await findRunningAgents()
StreamOpen(s) ==
  /\ sub[s].pc = "closed"
  /\ sub' = [sub EXCEPT ![s].pc = "find1", ![s].listening = TRUE]
  /\ UNCHANGED lifeVars
  /\ UNCHANGED <<watchVars, farVars>>

\* const allAgents = await findRunningAgents(); ok says whether the commands
\* of the enumeration could be run; when they fail the function returns []
\* (the catch blocks of lines 91-95, 107-109 and 154-157)
StreamFind1(s, ok) ==
  /\ sub[s].pc = "find1"
  /\ sub' = [sub EXCEPT ![s].pc = "find2",
                        ![s].allAgents = IF ok THEN FindRunningAgents ELSE <<>>,
                        ![s].failed = ~ok]
  /\ UNCHANGED lifeVars
  /\ UNCHANGED <<watchVars, farVars>>

\* findRunningAgents() inside getExternalAgentPid()
StreamFind2(s, ok) ==
  /\ sub[s].pc = "find2"
  /\ LET agents == IF ok THEN FindRunningAgents ELSE <<>>
     IN sub' = [sub EXCEPT ![s].agents = agents, ![s].failed = ~ok,
                           ![s].pc = IF agents = <<>> THEN "status" ELSE "verify"]
  /\ UNCHANGED lifeVars
  /\ UNCHANGED <<watchVars, farVars>>

\* the verifyProcess() probes of getExternalAgentPid() and its result
StreamVerify(s) ==
  /\ sub[s].pc = "verify"
  /\ sub' = [sub EXCEPT ![s].extPid = GetExternalAgentPid(Verified(sub[s].agents)),
                        ![s].pc = "status"]
  /\ UNCHANGED lifeVars
  /\ UNCHANGED <<watchVars, farVars>>

\* the block resumes and writes the status event; with an agent running it
\* goes on to await getActiveLogFiles(600000)
StreamStatus(s) ==
  /\ sub[s].pc = "status"
  /\ LET externalPid == sub[s].extPid
         hasExternal == externalPid # 0 /\ (~IsRunning \/ externalPid # agentProcess)
     IN sub' = [sub EXCEPT ![s] = [SendEvent(sub[s], "status") EXCEPT
                  !.allAgents = <<>>, !.agents = <<>>, !.failed = FALSE,
                  !.pc = IF hasExternal \/ IsRunning THEN "files" ELSE "open"]]
  /\ UNCHANGED lifeVars
  /\ UNCHANGED <<watchVars, farVars>>

\* fsSync.unwatchFile(filepath, watcher): watcher is the StatWatcher and no
\* function, so every listener on the file is removed, whoever added it
UnwatchFile(subs) == [s \in Subs |-> [subs[s] EXCEPT !.statListener = 0]]

\* watchLogFile(filename, res, req) called for subscriber s on a log file that
\* is there and has content: readExisting() writes the content,
\* startWatching() adds a listener and the logWatchers entry, and cleanup is
\* registered for a 'close' that may already have been emitted
WatchLogFile(subs, s) ==
  [subs EXCEPT ![s] = [SendEvent(subs[s], "file") EXCEPT
     !.watcher = TRUE, !.registered = TRUE, !.statListener = 1,
     !.hooked = subs[s].connected]]

\* getActiveLogFiles(600000) resolves: active says whether a log file was
\* written to in the last ten minutes
StreamFiles(s, active) ==
  /\ sub[s].pc = "files"
  /\ sub' = IF active
            THEN [WatchLogFile(sub, s) EXCEPT ![s].pc = "open"]
            ELSE [sub EXCEPT ![s].pc = "latest"]
  /\ UNCHANGED lifeVars
  /\ UNCHANGED <<watchVars, farVars>>

\* getActiveLogFiles(3600000) resolves: found says whether there is a log file
StreamLatest(s, found) ==
  /\ sub[s].pc = "latest"
  /\ sub' = IF found
            THEN [WatchLogFile(sub, s) EXCEPT ![s].pc = "open"]
            ELSE [sub EXCEPT ![s].pc = "open"]
  /\ UNCHANGED lifeVars
  /\ UNCHANGED <<watchVars, farVars>>

\* cleanup() of the watchLogFile call made for subscriber s (the file exists)
SubCleanup(subs, s) ==
  LET u == IF subs[s].watcher THEN UnwatchFile(subs) ELSE subs
  IN [u EXCEPT ![s].registered = FALSE, ![s].isClosed = TRUE]

\* the 'close' handler of the stream: the relay listeners and the
\* logWatchers entry of subscriber s
StreamCloseHandler(subs, s) ==
  LET u == IF subs[s].registered THEN UnwatchFile(subs) ELSE subs
  IN [u EXCEPT ![s].listening = FALSE, ![s].registered = FALSE]

\* req emits 'close': the subscriber disconnects, at any moment after the
\* handler was entered; the handlers registered by then run in order
StreamClose(s) ==
  /\ sub[s].pc # "closed"
  /\ sub[s].connected
  /\ LET u == StreamCloseHandler(sub, s)
         v == IF sub[s].hooked THEN SubCleanup(u, s) ELSE u
     IN sub' = [v EXCEPT ![s].connected = FALSE]
  /\ UNCHANGED lifeVars
  /\ UNCHANGED <<watchVars, farVars>>

\* the watched log file grows and its StatWatcher calls the listeners: each
\* session that is not closed writes the new content
LogGrows ==
  /\ \E s \in Subs : sub[s].statListener > 0 /\ ~sub[s].isClosed
                     /\ sub[s].connected /\ Len(sub[s].out) < MaxOut
  /\ sub' = [s \in Subs |-> IF sub[s].statListener > 0 /\ ~sub[s].isClosed
                             THEN SendEvent(sub[s], "file") ELSE sub[s]]
  /\ UNCHANGED lifeVars
  /\ UNCHANGED <<watchVars, farVars>>

\* a heartbeat interval (30 s) passes on an open subscription: the handler
\* has set no timer, no code runs
HeartbeatDue(s) ==
  /\ sub[s].pc # "closed" /\ sub[s].connected
  /\ sub[s].age = 0
  /\ sub' = [sub EXCEPT ![s].age = 1]
  /\ UNCHANGED lifeVars
  /\ UNCHANGED <<watchVars, farVars>>

\* a live child writes a chunk to its stdout or its stderr
Produce(h, stream) ==
  /\ child[h].spawned /\ os[h] = "agent"
  /\ pipe.n < MaxChunks
  /\ pipe' = [pipe EXCEPT !.n = @ + 1, !.q[h][stream] = Append(@, pipe.n + 1)]
  /\ UNCHANGED <<serverVars, watchVars, client, dir, agent, par, road>>

\* the data handler taking the chunk written last
RelayLast(h, stream) ==
  /\ pipe.q[h][stream] # <<>>
  /\ LET q == pipe.q[h][stream]
         chunk == q[Len(q)]
     IN pipe' = [pipe EXCEPT
          !.q[h][stream] = SubSeq(q, 1, Len(q) - 1),
          !.got = [s \in Subs |-> IF sub[s].listening
                                  THEN Append(pipe.got[s], [type |-> stream, n |-> chunk])
                                  ELSE pipe.got[s]]]
  /\ Emit("log")
  /\ sent' = {}
  /\ last' = NoResp /\ UNCHANGED <<os, child, agentProcess, timers, req>>
  /\ UNCHANGED <<watchVars, client, dir, agent, par, road>>

\* agentProcess.stdout/stderr.on('data'): the server reads the next chunk of
\* a pipe and emits it as a log event with the name of the pipe as type;
\* every onLog registered writes it to its subscriber
Relay(h, stream) ==
  /\ pipe.q[h][stream] # <<>>
  /\ LET chunk == Head(pipe.q[h][stream])
     IN pipe' = [pipe EXCEPT
          !.q[h][stream] = Tail(@),
          !.got = [s \in Subs |-> IF sub[s].listening
                                  THEN Append(pipe.got[s], [type |-> stream, n |-> chunk])
                                  ELSE pipe.got[s]]]
  /\ Emit("log")
  /\ sent' = {}
  /\ last' = NoResp /\ UNCHANGED <<os, child, agentProcess, timers, req>>
  /\ UNCHANGED <<watchVars, client, dir, agent, par, road>>

\* the lifecycle controller and its environment
LifeNext ==
  \/ \E r \in Reqs : StartBegin(r) \/ StartGetExternalPid(r) \/ StartFinish(r)
  \/ \E r \in Reqs : (\E arg \in {0} \cup Pids : StopBegin(r, arg)) \/ StopCheck(r) \/ StopTerm(r)
  \/ \E t \in timers : KillTimer(t)
  \/ \E p \in Pids : ProcDie(p) \/ ExtStart(p)
  \/ \E h \in Handles : ExitEvent(h)

Spec == Init /\ [][LifeNext]_vars

\* the first two requests, the first subscriber
StreamReqs == {r \in Reqs : r <= 2}
StreamSubs == {s \in Subs : s <= 1}

\* the event stream next to two requests that start or stop the managed
\* process
StreamNext ==
  \/ \E s \in StreamSubs : StreamOpen(s) \/ StreamFind1(s, TRUE) \/ StreamFind2(s, TRUE)
                             \/ StreamVerify(s) \/ StreamStatus(s) \/ StreamClose(s)
                             \/ HeartbeatDue(s)
  \/ \E s \in StreamSubs, b \in BOOLEAN : StreamFiles(s, b) \/ StreamLatest(s, b)
  \/ LogGrows
  \/ \E h \in Handles : ExitEvent(h) \/ Output(h)
  \/ \E r \in StreamReqs : StartBegin(r) \/ StartGetExternalPid(r) \/ StartFinish(r)
  \/ \E r \in StreamReqs : StopBegin(r, 0)
  \/ \E t \in timers : KillTimer(t)
  \/ \E p \in Pids : ProcDie(p) \/ ExtStart(p)

SpecStream == Init /\ [][StreamNext]_vars

(* ------------------- process.on('SIGTERM' / 'SIGINT') ------------------- *)
\* the server has run process.exit(0)
Down == last.op = "shutdown"

\* the loop over logWatchers.entries() with fsSync.unwatchFile(filepath,
\* watcher), then logWatchers.clear()
ClearWatchers(subs) ==
  LET u == IF \E s \in Subs : subs[s].registered THEN UnwatchFile(subs) ELSE subs
  IN [s \in Subs |-> [u[s] EXCEPT !.registered = FALSE]]

\* the handler of SIGTERM and the one of SIGINT: the watchers, SIGTERM to
\* the tracked process, process.exit(0), which drops the pending timers
Shutdown(sig) ==
  /\ ~Down
  /\ sub' = ClearWatchers(sub)
  /\ IF IsRunning
     THEN ChildKill(agentProcess, "TERM")
     ELSE sent' = {} /\ UNCHANGED <<os, child>>
  /\ timers' = {}
  /\ last' = Resp("shutdown", 0, sig, 0)
  /\ UNCHANGED <<agentProcess, req>>
  /\ UNCHANGED <<watchVars, farVars>>

\* the server with its event stream until a SIGTERM or a SIGINT ends it
ShutdownNext ==
  \/ ~Down /\ StreamNext
  \/ \E sig \in {"SIGTERM", "SIGINT"} : Shutdown(sig)

SpecShutdown == Init /\ [][ShutdownNext]_vars

\* status queries next to starts and stops of the managed process and to
\* agents started outside the dashboard
StatusNext ==
  \/ \E r \in StreamReqs : StatusBegin(r) \/ StatusFind(r) \/ StatusVerify(r)
                            \/ StatusGetExternalPid(r) \/ StatusAnswer(r)
  \/ \E r \in StreamReqs : StartBegin(r) \/ StartGetExternalPid(r) \/ StartFinish(r)
  \/ \E r \in StreamReqs : StopBegin(r, 0)
  \/ \E t \in timers : KillTimer(t)
  \/ \E h \in Handles : ExitEvent(h)
  \/ \E p \in Pids : ProcDie(p) \/ ExtStart(p)

SpecStatus == Init /\ [][StatusNext]_vars

\* a start, a stop and status queries in any order, next to agents started
\* outside the dashboard
ExternalNext ==
  \/ \E r \in Reqs : StatusBegin(r) \/ StatusFind(r) \/ StatusVerify(r)
                      \/ StatusGetExternalPid(r) \/ StatusAnswer(r)
  \/ \E r \in Reqs : StartBegin(r) \/ StartGetExternalPid(r) \/ StartFinish(r)
  \/ \E r \in Reqs : StopBegin(r, 0)
  \/ \E t \in timers : KillTimer(t)
  \/ \E h \in Handles : ExitEvent(h)
  \/ \E p \in Pids : ProcDie(p) \/ ExtStart(p)

SpecExternal == Init /\ [][ExternalNext]_vars

\* the first two subscribers
RelaySubs == {s \in Subs : s <= 2}

\* the output of one managed process relayed to two subscribers
RelayNext ==
  \/ \E r \in {1} : StartBegin(r) \/ StartGetExternalPid(r) \/ StartFinish(r)
  \/ \E h \in Handles, stream \in {"stdout", "stderr"} :
        Produce(h, stream) \/ Relay(h, stream)
  \/ \E h \in Handles : ProcDie(h)
  \/ \E s \in RelaySubs : StreamOpen(s) \/ StreamClose(s)

SpecRelay == Init /\ [][RelayNext]_vars

\* the subscribers next to a start of the managed process and to agents
\* started outside the dashboard
SubsNext ==
  \/ \E s \in Subs : StreamOpen(s) \/ StreamFind1(s, TRUE) \/ StreamFind2(s, TRUE)
                       \/ StreamVerify(s)
                       \/ StreamStatus(s) \/ StreamClose(s) \/ HeartbeatDue(s)
  \/ \E s \in Subs, b \in BOOLEAN : StreamFiles(s, b) \/ StreamLatest(s, b)
  \/ LogGrows
  \/ \E r \in {1} : StartBegin(r) \/ StartGetExternalPid(r) \/ StartFinish(r)
  \/ \E p \in ExtPids : ProcDie(p) \/ ExtStart(p)

SpecSubs == Init /\ [][SubsNext]_vars

\* the enumerations made for the first subscriber and for a start, next to
\* processes that come and go and to enumeration commands that fail
DiscNext ==
  \/ \E s \in StreamSubs : StreamOpen(s) \/ StreamVerify(s) \/ StreamStatus(s)
                             \/ StreamClose(s)
  \/ \E s \in StreamSubs, ok \in BOOLEAN : StreamFind1(s, ok) \/ StreamFind2(s, ok)
  \/ \E s \in StreamSubs, b \in BOOLEAN : StreamFiles(s, b) \/ StreamLatest(s, b)
  \/ \E r \in {1} : StartBegin(r) \/ StartGetExternalPid(r) \/ StartFinish(r)
  \/ \E h \in Handles : ExitEvent(h)
  \/ \E p \in Pids : ProcDie(p) \/ ExtStart(p) \/ WorkerStart(p) \/ PidReuse(p)

SpecDisc == Init /\ [][DiscNext]_vars

(* ========================= the dashboard page ========================== *)
(* The page script (src/unnamed/part_002): the EventSource on /api/stream,  *)
(* its listeners, the reconnect timer and loadStats.  The stream request of *)
(* the page is one of the server's Subs; the page handles the events the    *)
(* server wrote to it in order.                                             *)

\* const maxReconnectAttempts = 10
maxReconnectAttempts == 10

Min(a, b) == IF a < b THEN a ELSE b

\* the EventSource of the page is connecting or open
Live(c) == c.readyState \in {"connecting", "open"}

\* eventSource.close(), when there is one
CloseSource(c) == IF Live(c) THEN [c EXCEPT !.sources = @ - 1] ELSE c

\* if (reconnectTimeout) { clearTimeout(reconnectTimeout); reconnectTimeout = null }
ClearReconnect(c) ==
  IF c.reconnectTimeout # 0
  THEN [c EXCEPT !.reconnectTimeout = 0, !.timers = @ - 1] ELSE c

\* startLogStream that leaves the EventSource there is open
StartLogStreamNoClose(c) ==
  [c EXCEPT !.readyState = "connecting", !.conn = 0, !.got = 0,
            !.sources = @ + 1]

\* startLogStream(): closes the EventSource there is and makes a new one
StartLogStream(c) ==
  [CloseSource(c) EXCEPT !.readyState = "connecting", !.conn = 0, !.got = 0,
                         !.sources = @ + 1]

\* stopLogStream()
StopLogStream(c) ==
  [CloseSource(ClearReconnect(c)) EXCEPT !.reconnectAttempts = 0,
            !.readyState = "none", !.conn = 0, !.got = 0]

\* the click on the logs tab (lines 81-85)
ClientShowLogs ==
  /\ client.readyState \in {"none", "closed"}
  /\ client' = StartLogStream(client)
  /\ UNCHANGED <<serverVars, watchVars, pipe, dir, agent, par, road>>

\* the request of the EventSource reaches the server as stream request s
ClientRequest(s) ==
  /\ client.readyState = "connecting" /\ client.conn = 0
  /\ sub[s].pc = "closed"
  /\ \A t \in Subs : t < s => sub[t].pc # "closed"
  /\ client' = [client EXCEPT !.conn = s]
  /\ UNCHANGED <<serverVars, watchVars, pipe, dir, agent, par, road>>

\* the 'open' listener
OnOpen(c) == [ClearReconnect(c) EXCEPT !.readyState = "open",
                                       !.reconnectAttempts = 0]

\* the 'exit' listener: setTimeout(loadStats, 500); stopLogStream()
OnExit(c) == StopLogStream([c EXCEPT !.statsTimer = TRUE, !.afterExit = TRUE])

\* the page handles the next event the server wrote to its stream; the first
\* bytes of the response open the EventSource
ClientReceive ==
  /\ client.conn # 0
  /\ client.readyState \in {"connecting", "open"}
  /\ client.got < Len(sub[client.conn].out)
  /\ LET ev == sub[client.conn].out[client.got + 1]
         c == [OnOpen(client) EXCEPT !.got = client.got + 1]
     IN client' = IF client.readyState = "connecting" THEN [c EXCEPT !.got = client.got]
                  ELSE IF ev = "exit" THEN OnExit(c) ELSE c
  /\ UNCHANGED <<serverVars, watchVars, pipe, dir, agent, par, road>>

\* eventSource.onerror: the connection failed or was lost.  closed says
\* whether the browser gave up (readyState CLOSED) or goes on connecting by
\* itself (readyState CONNECTING, the handler then does nothing)
ClientError(closed) ==
  /\ client.readyState \in {"connecting", "open"}
  /\ client' =
       IF ~closed THEN [client EXCEPT !.readyState = "connecting", !.conn = 0, !.got = 0]
       ELSE LET c == [ClearReconnect(CloseSource(client))
                        EXCEPT !.readyState = "closed", !.conn = 0, !.got = 0]
            IN IF c.reconnectAttempts < maxReconnectAttempts
               THEN [c EXCEPT !.reconnectAttempts = @ + 1,
                              !.timers = @ + 1,
                              !.reconnectTimeout =
                                 Min(2000 * (c.reconnectAttempts + 1), 10000)]
               ELSE c
  /\ UNCHANGED <<serverVars, watchVars, pipe, dir, agent, par, road>>

\* the callback of reconnectTimeout
ClientReconnectTimer ==
  /\ client.timers > 0
  /\ LET c == [client EXCEPT !.reconnectTimeout = 0, !.timers = @ - 1]
     IN client' = IF c.readyState \in {"none", "closed"} THEN StartLogStream(c) ELSE c
  /\ UNCHANGED <<serverVars, watchVars, pipe, dir, agent, par, road>>

\* setTimeout(loadStats, 500) or setInterval(loadStats, 5000) fires: fetch
ClientLoadStats ==
  /\ ~client.fetching
  /\ client' = [client EXCEPT !.statsTimer = FALSE, !.fetching = TRUE]
  /\ UNCHANGED <<serverVars, watchVars, pipe, dir, agent, par, road>>

\* isExternal of the answer of /api/status, computed on the process table
\* of one moment
StatusIsExternal ==
  LET externalPid == GetExternalAgentPid(Verified(FindRunningAgents))
  IN externalPid # 0 /\ ~IsRunning

\* loadStats after its fetch: tab says whether the logs tab is shown
ClientStatsAnswer(tab) ==
  /\ client.fetching
  /\ LET c == [client EXCEPT !.fetching = FALSE, !.afterExit = FALSE]
     IN client' = IF StatusIsExternal /\ tab /\ c.readyState \in {"none", "closed"}
                  THEN StartLogStream(c) ELSE c
  /\ UNCHANGED <<serverVars, watchVars, pipe, dir, agent, par, road>>

\* the page next to the server it talks to and one start of the managed
\* process, with connections that do not fail
ClientNext ==
  \/ ClientShowLogs \/ ClientReceive \/ ClientLoadStats
  \/ \E s \in Subs : ClientRequest(s)
  \/ \E b \in BOOLEAN : ClientStatsAnswer(b)
  \/ \E s \in Subs : (client.conn = s /\ StreamOpen(s))
                       \/ (client.conn # s /\ StreamClose(s))
                       \/ StreamFind1(s, TRUE) \/ StreamFind2(s, TRUE)
                       \/ StreamVerify(s) \/ StreamStatus(s)
  \/ \E b \in BOOLEAN, s \in Subs : StreamFiles(s, b) \/ StreamLatest(s, b)
  \/ \E r \in {1} : StartBegin(r) \/ StartGetExternalPid(r) \/ StartFinish(r)
  \/ \E h \in Handles : ProcDie(h) \/ ExitEvent(h)

SpecClient == Init /\ [][ClientNext]_vars

\* the page with connections that fail or are lost; no agent runs
ReconnectNext ==
  \/ ClientShowLogs \/ ClientReceive \/ ClientReconnectTimer
  \/ \E s \in Subs : ClientRequest(s)
  \/ \E b \in BOOLEAN : ClientError(b)
  \/ \E s \in Subs : (client.conn = s /\ StreamOpen(s))
                       \/ (client.conn # s /\ StreamClose(s))
                       \/ StreamFind1(s, TRUE) \/ StreamFind2(s, TRUE)
                       \/ StreamStatus(s)

SpecReconnect == Init /\ [][ReconnectNext]_vars

\* startLogStream() called whatever the EventSource is: the answer of a
\* start request, or 'live' chosen in the log selector
ClientStartLive ==
  /\ client' = StartLogStream(client)
  /\ UNCHANGED <<serverVars, watchVars, pipe, dir, agent, par, road>>

\* stopLogStream() called by the page: the answer of a stop request, or a
\* log file chosen in the log selector
ClientStop ==
  /\ client' = StopLogStream(client)
  /\ UNCHANGED <<serverVars, watchVars, pipe, dir, agent, par, road>>

\* the callback of healthCheckInterval after its fetch: tab says whether the
\* fetch succeeded and the logs tab is shown
ClientHealthCheck(tab) ==
  /\ client' = IF tab /\ ~Live(client) THEN StartLogStream(client) ELSE client
  /\ UNCHANGED <<serverVars, watchVars, pipe, dir, agent, par, road>>

\* the page with failing connections, a user who starts and stops the
\* stream, and the health check
PageNext ==
  \/ ReconnectNext
  \/ ClientStartLive
  \/ ClientStop
  \/ \E b \in BOOLEAN : ClientHealthCheck(b)

SpecPage == Init /\ [][PageNext]_vars

(* ======================= the log tail watcher ========================== *)
(* One call of watchLogFile(filename, res, req) on one file.  fs.watchFile   *)
(* polls the file with stat: the first stat that succeeds only records the   *)
(* size; later the listeners are called with (curr, prev) when the stat      *)
(* differs from the recorded one, or fails for the first time (curr is then  *)
(* all zero), or succeeds again after a failure (prev is then the last stat  *)
(* that succeeded).  Every watchFile call on the path adds a listener to the *)
(* same StatWatcher; unwatchFile(path, watcher) is given the StatWatcher     *)
(* instead of a listener and so removes all listeners and stops it.  The     *)
(* stat of a poll and the reads of its listeners are one action.             *)
(* A read of the file is "ok", or the file is removed just before it         *)
(* ("gone", readFileSync throws ENOENT), or it fails otherwise ("err").      *)

\* const maxRetries = 10
maxRetries == 10
\* longest file content
MaxFileLen == 2
\* number of changes made to the file (writes, removals, failing reads)
MaxFileOps == 3

Chars == {"a", "b"}
Contents == UNION {[1..n -> Chars] : n \in 0..MaxFileLen}
ReadResults == {"ok", "gone", "err"}

\* the server with a log file of any content, or none, about to be watched
WatchInit ==
  /\ ServerInit
  /\ file \in [exists : BOOLEAN, content : Contents]
  /\ (~file.exists => file.content = <<>>)
  /\ tail = InitTail
  /\ hist = InitHist
  /\ client = InitClient
  /\ pipe = InitPipe
  /\ dir = InitDir
  /\ agent = InitAgent
  /\ par = InitPar
  /\ road = InitRoad

\* the events sendContent writes: file content, or one of the notices
Data(content, isNew) == [kind |-> "data", data |-> content, isNew |-> isNew]
Notice(kind) == [kind |-> kind, data |-> <<>>, isNew |-> TRUE]

\* sendContent without its isClosed test
SendContentUnguarded(t, ev) ==
  IF ev.kind = "data" /\ ev.data = <<>> THEN t
  ELSE [t EXCEPT !.out = Append(@, ev), !.retryCount = 0]

\* sendContent(content, isNew)
SendContent(t, ev) ==
  IF t.isClosed \/ (ev.kind = "data" /\ ev.data = <<>>) THEN t
  ELSE [t EXCEPT !.out = Append(@, ev), !.retryCount = 0]

\* the retry of a catch block: retryCount++ and a setTimeout
Retry(t, timer) ==
  IF t.retryCount < maxRetries
  THEN [t EXCEPT !.retryCount = @ + 1, ![timer] = @ + 1]
  ELSE t

\* readExisting(): f is the file, rd the outcome of readFileSync
ReadExisting(t, f, rd) ==
  IF ~f.exists THEN t
  ELSE IF rd = "ok"
       THEN SendContent([t EXCEPT !.position = Len(f.content)], Data(f.content, FALSE))
       ELSE IF ~t.isClosed THEN Retry(t, "readTimers") ELSE t

\* startWatching(): exists is fsSync.existsSync(filepath)
StartWatching(t, exists) ==
  IF t.isClosed THEN t
  ELSE IF ~exists
       THEN IF t.retryCount < maxRetries
            THEN Retry(t, "retryTimers")
            ELSE SendContent(t, Notice("notfound"))
       ELSE [t EXCEPT !.watcher = TRUE, !.registered = TRUE, !.retryCount = 0,
                      !.listeners = @ + 1,
                      !.statBusy = IF t.listeners = 0 THEN 0 ELSE @,
                      !.statSize = IF t.listeners = 0 THEN 0 ELSE @]

\* content.substring(position)
NewContent(content, position) == SubSeq(content, position + 1, Len(content))

\* the growth branch with a catch that ends the session on a failing read
GrewErrCloses(t, f, rd) ==
  IF ~f.exists THEN t
  ELSE IF rd = "gone" THEN Retry(t, "retryTimers")
  ELSE IF rd = "err" THEN [t EXCEPT !.isClosed = TRUE]
  ELSE IF Len(f.content) > t.position
       THEN [SendContent(t, Data(NewContent(f.content, t.position), TRUE))
               EXCEPT !.position = Len(f.content)]
  ELSE t

\* the listener's branch for a file that grew (curr.size > prev.size)
Grew(t, f, rd) ==
  IF ~f.exists THEN t
  ELSE IF rd = "gone" THEN Retry(t, "retryTimers")
  ELSE IF rd = "err" THEN t
  ELSE IF Len(f.content) > t.position
       THEN [SendContent(t, Data(NewContent(f.content, t.position), TRUE))
               EXCEPT !.position = Len(f.content)]
  ELSE IF Len(f.content) < t.position
       THEN LET t1 == [SendContent(t, Notice("rotated")) EXCEPT !.position = 0]
            IN IF f.content # <<>>
               THEN [SendContent(t1, Data(f.content, TRUE)) EXCEPT !.position = Len(f.content)]
               ELSE t1
  ELSE t

\* the shrink branch with the notice only: no reset, no read
ShrankNoticeOnly(t, f, rd) == SendContent(t, Notice("truncated"))

\* the listener's branch for a file that shrank (curr.size < prev.size)
Shrank(t, f, rd) ==
  LET t1 == [SendContent(t, Notice("truncated")) EXCEPT !.position = 0]
  IN IF f.exists /\ rd = "ok" /\ f.content # <<>>
     THEN [SendContent(t1, Data(f.content, TRUE)) EXCEPT !.position = Len(f.content)]
     ELSE t1

\* the listener given to fs.watchFile
OnChange(t, curr, prev, f, rd) ==
  IF t.isClosed THEN t
  ELSE IF curr > prev \/ (prev = 0 /\ curr > 0) THEN Grew(t, f, rd)
  ELSE IF curr < prev THEN Shrank(t, f, rd)
  ELSE t

\* the file as the next read finds it after a read with outcome rd
AfterRead(f, rd) == IF rd = "gone" THEN NoFile ELSE f

\* the StatWatcher calls its n listeners one after the other
RECURSIVE RunListeners(_, _, _, _, _, _)
RunListeners(t, n, curr, prev, f, rd) ==
  IF n = 0 THEN t
  ELSE RunListeners(OnChange(t, curr, prev, f, rd), n - 1, curr, prev,
                    AfterRead(f, rd), IF rd = "gone" THEN "ok" ELSE rd)

\* cleanup() taking one listener off the StatWatcher per call
CleanupOneListener(t, exists) ==
  LET t1 == IF t.watcher /\ exists /\ t.listeners > 0
            THEN [t EXCEPT !.listeners = @ - 1]
            ELSE t
  IN [t1 EXCEPT !.registered = FALSE, !.isClosed = TRUE]

\* cleanup()
Cleanup(t, exists) ==
  LET t1 == IF t.watcher /\ exists
            THEN [t EXCEPT !.listeners = 0, !.statBusy = 0, !.statSize = 0]
            ELSE t
  IN [t1 EXCEPT !.registered = FALSE, !.isClosed = TRUE]

\* a read that does not succeed is a change made to the file or to its access
Faulted(rd) ==
  IF rd = "ok" THEN hist
  ELSE [hist EXCEPT !.ops = @ + 1, !.faults = @ + 1,
                    !.grewOnly = IF rd = "gone" THEN FALSE ELSE @]

Fault(rd) == hist' = Faulted(rd)

ReadAllowed(rd) == rd = "ok" \/ (file.exists /\ hist.ops < MaxFileOps)

\* watchLogFile(): readExisting(), startWatching(), req.on('close', cleanup)
WatchOpen(rd) ==
  /\ ~tail.opened
  /\ ReadAllowed(rd)
  /\ tail' = [StartWatching(ReadExisting(tail, file, rd), AfterRead(file, rd).exists)
                EXCEPT !.opened = TRUE]
  /\ file' = AfterRead(file, rd)
  /\ Fault(rd)
  /\ UNCHANGED <<serverVars, farVars>>

\* one stat of the StatWatcher and the listener calls it leads to
Poll(rd) ==
  /\ tail.listeners > 0
  /\ LET size == Len(file.content)
         called == IF file.exists
                   THEN tail.statBusy = -1 \/ (tail.statBusy = 1 /\ size # tail.statSize)
                   ELSE tail.statBusy = 1
         curr == IF file.exists THEN size ELSE 0
         t1 == [tail EXCEPT !.statBusy = IF file.exists THEN 1 ELSE -1,
                            !.statSize = IF file.exists THEN size ELSE @]
     IN /\ IF called THEN ReadAllowed(rd) ELSE rd = "ok"
        /\ tail' = IF called
                   THEN RunListeners(t1, tail.listeners, curr, tail.statSize, file, rd)
                   ELSE t1
        /\ file' = IF called THEN AfterRead(file, rd) ELSE file
        /\ hist' = IF called
                   THEN [Faulted(rd) EXCEPT !.pollErr = @ \/ rd = "err"]
                   ELSE hist
  /\ UNCHANGED <<serverVars, farVars>>

\* setTimeout(startWatching, 1000 * retryCount) fires
RetryTimer ==
  /\ tail.retryTimers > 0
  /\ tail' = StartWatching([tail EXCEPT !.retryTimers = @ - 1], file.exists)
  /\ UNCHANGED <<file, hist>>
  /\ UNCHANGED <<serverVars, farVars>>

\* setTimeout(readExisting, 1000 * retryCount) fires
ReadTimer(rd) ==
  /\ tail.readTimers > 0
  /\ ReadAllowed(rd)
  /\ tail' = ReadExisting([tail EXCEPT !.readTimers = @ - 1], file, rd)
  /\ file' = AfterRead(file, rd)
  /\ Fault(rd)
  /\ UNCHANGED <<serverVars, farVars>>

\* req.on('close', cleanup), req.on('error', cleanup): the subscriber
\* disconnects
WatchClose ==
  /\ tail.opened /\ tail.connected
  /\ tail' = [Cleanup(tail, file.exists) EXCEPT !.connected = FALSE]
  /\ UNCHANGED <<file, hist>>
  /\ UNCHANGED <<serverVars, farVars>>

\* the writer of the log appends one character
FileAppend(c) ==
  /\ file.exists /\ Len(file.content) < MaxFileLen /\ hist.ops < MaxFileOps
  /\ file' = [file EXCEPT !.content = Append(@, c)]
  /\ hist' = [hist EXCEPT !.ops = @ + 1]
  /\ UNCHANGED tail
  /\ UNCHANGED <<serverVars, farVars>>

IsPrefix(a, b) == Len(a) <= Len(b) /\ SubSeq(b, 1, Len(a)) = a

\* the file is truncated or replaced by another one (rotation)
FileRewrite(content) ==
  /\ file.exists /\ hist.ops < MaxFileOps
  /\ ~IsPrefix(file.content, content)
  /\ file' = [file EXCEPT !.content = content]
  /\ hist' = [hist EXCEPT !.ops = @ + 1, !.grewOnly = FALSE]
  /\ UNCHANGED tail
  /\ UNCHANGED <<serverVars, farVars>>

\* the file is removed
FileDelete ==
  /\ file.exists /\ hist.ops < MaxFileOps
  /\ file' = NoFile
  /\ hist' = [hist EXCEPT !.ops = @ + 1, !.grewOnly = FALSE]
  /\ UNCHANGED tail
  /\ UNCHANGED <<serverVars, farVars>>

\* a file appears under the watched name
FileCreate(content) ==
  /\ ~file.exists /\ hist.ops < MaxFileOps
  /\ file' = [exists |-> TRUE, content |-> content]
  /\ hist' = [hist EXCEPT !.ops = @ + 1, !.grewOnly = FALSE]
  /\ UNCHANGED tail
  /\ UNCHANGED <<serverVars, farVars>>

WatchNext ==
  \/ \E rd \in ReadResults : WatchOpen(rd) \/ Poll(rd) \/ ReadTimer(rd)
  \/ RetryTimer
  \/ WatchClose
  \/ \E c \in Chars : FileAppend(c)
  \/ \E content \in Contents : FileRewrite(content) \/ FileCreate(content)
  \/ FileDelete

SpecWatch == WatchInit /\ [][WatchNext]_vars

\* timers fire and the StatWatcher keeps polling
FairSpecWatch ==
  /\ SpecWatch
  /\ WF_vars(\E rd \in ReadResults : Poll(rd))
  /\ WF_vars(RetryTimer)
  /\ WF_vars(\E rd \in ReadResults : ReadTimer(rd))

(* ======================== the log file listing ========================= *)
(* getActiveLogFiles(maxAge) stats every .log file of LOG_DIR and returns    *)
(* the descriptors sorted by the comparator b.mtime - a.mtime               *)
(* (Array.prototype.sort is stable).  The stream handler lists with         *)
(* maxAge 600000, keeps the active descriptors and watches the first; with  *)
(* none it lists again with maxAge 3600000 and watches the first of that.   *)
(* File names are the numbers 1..NFiles, in the order readdir returns them. *)

\* getActiveLogFiles(600000) in the stream handler
ActiveAge == 600000
\* getActiveLogFiles(3600000) in the stream handler
LatestAge == 3600000
\* const isCurrentlyActive = age < 30000
CurrentlyActiveAge == 30000
\* the ages the files have at first: one step of the clock before a threshold
Ages == {29999, 599999, 3600000}
\* the steps of the clock
Deltas == {1, 30000}

\* the descriptor the map callback builds from statSync
Descriptor(f, maxAge) ==
  [filename |-> f, mtime |-> dir.mtime[f], age |-> dir.now - dir.mtime[f],
   isActive |-> dir.now - dir.mtime[f] < maxAge]

\* .sort((a, b) => b.mtime - a.mtime) by stable insertion: d goes behind
\* every descriptor the comparator does not put behind it
RECURSIVE Insert(_, _)
Insert(d, sorted) ==
  IF sorted = <<>> THEN <<d>>
  ELSE IF d.mtime - Head(sorted).mtime > 0
       THEN <<d>> \o sorted
       ELSE <<Head(sorted)>> \o Insert(d, Tail(sorted))

RECURSIVE SortByMtime(_, _)
SortByMtime(descs, sorted) ==
  IF descs = <<>> THEN sorted
  ELSE SortByMtime(Tail(descs), Insert(Head(descs), sorted))

\* files.filter(...).map(...).filter(f => f !== null), in readdir order
RECURSIVE Stat(_, _)
Stat(f, maxAge) ==
  IF f > NFiles THEN <<>>
  ELSE IF dir.mtime[f] = Absent THEN Stat(f + 1, maxAge)
       ELSE <<Descriptor(f, maxAge)>> \o Stat(f + 1, maxAge)

\* the listing left in readdir order
GetActiveLogFilesUnsorted(maxAge) == Stat(1, maxAge)

\* getActiveLogFiles(maxAge)
GetActiveLogFiles(maxAge) == SortByMtime(Stat(1, maxAge), <<>>)

\* activeFiles.filter(f => f.isActive)
RECURSIVE FilterActive(_)
FilterActive(descs) ==
  IF descs = <<>> THEN <<>>
  ELSE IF Head(descs).isActive
       THEN <<Head(descs)>> \o FilterActive(Tail(descs))
       ELSE FilterActive(Tail(descs))

\* getActiveLogFiles(600000) resolves in the stream handler
ListActive ==
  /\ dir.pc = "idle"
  /\ LET activeFiles == GetActiveLogFiles(ActiveAge)
         activeLogFiles == FilterActive(activeFiles)
     IN dir' = IF activeLogFiles # <<>>
               THEN [dir EXCEPT !.listing = activeFiles, !.pc = "watching",
                                !.picked = activeLogFiles[1].filename]
               ELSE [dir EXCEPT !.listing = activeFiles, !.pc = "latest",
                                !.picked = 0]
  /\ UNCHANGED <<serverVars, watchVars, client, pipe, agent, par, road>>

\* getActiveLogFiles(3600000) resolves in the stream handler
ListLatest ==
  /\ dir.pc = "latest"
  /\ LET latestFiles == GetActiveLogFiles(LatestAge)
     IN dir' = IF latestFiles # <<>>
               THEN [dir EXCEPT !.listing = latestFiles, !.pc = "watching",
                                !.picked = latestFiles[1].filename]
               ELSE [dir EXCEPT !.listing = latestFiles, !.pc = "nofile"]
  /\ UNCHANGED <<serverVars, watchVars, client, pipe, agent, par, road>>

\* the next stream request reaches the listing
NextListing ==
  /\ dir.pc \in {"watching", "nofile"}
  /\ dir' = [dir EXCEPT !.pc = "idle", !.listing = <<>>, !.picked = 0]
  /\ UNCHANGED <<serverVars, watchVars, client, pipe, agent, par, road>>

\* time passes
Tick(d) ==
  /\ dir.ticks < MaxTicks
  /\ dir' = [dir EXCEPT !.now = @ + d, !.ticks = @ + 1]
  /\ UNCHANGED <<serverVars, watchVars, client, pipe, agent, par, road>>

\* an agent writes to log file f, or creates it
Touch(f) ==
  /\ dir.mtime[f] # dir.now
  /\ dir' = [dir EXCEPT !.mtime[f] = dir.now]
  /\ UNCHANGED <<serverVars, watchVars, client, pipe, agent, par, road>>

\* the server next to a LOG_DIR holding any log files of any age
LogsInit ==
  /\ ServerInit
  /\ file = NoFile
  /\ tail = InitTail
  /\ hist = InitHist
  /\ client = InitClient
  /\ pipe = InitPipe
  /\ \E m \in [LogFiles -> {Now0 - a : a \in Ages} \cup {Absent}] :
       dir = [InitDir EXCEPT !.mtime = m]
  /\ agent = InitAgent
  /\ par = InitPar
  /\ road = InitRoad

LogsNext ==
  \/ ListActive
  \/ ListLatest
  \/ NextListing
  \/ \E d \in Deltas : Tick(d)
  \/ \E f \in LogFiles : Touch(f)

SpecLogs == LogsInit /\ [][LogsNext]_vars

(* ========================= the agent script ============================= *)
(* main() of roadmap-agent.sh from its loop on.  The script runs under       *)
(* set -e; a (( )) command whose expression is 0 returns status 1, so on a   *)
(* bash that applies set -e to (( )) the post-increment of a counter that is *)
(* 0 ends the script.  process_user_tasks and run_task are called as the     *)
(* condition of an if, where set -e does not apply.                          *)

\* ((counter++)), then pc when the script goes on
Increment(a, counter, pc) ==
  IF a.arithErrexit /\ a[counter] = 0
  THEN [a EXCEPT ![counter] = 1, !.pc = "died"]
  ELSE [a EXCEPT ![counter] = @ + 1, !.pc = pc]

\* if [ "$SINGLE_MODE" = "true" ]; then break; fi; sleep $LOOP_DELAY
AfterTask(a) == IF a.SINGLE_MODE THEN "done" ELSE "sleep"

\* the line of a task's id in .roadmap-user-tasks.json as
\* JSON.stringify(data, null, indent) writes it: with an indent the colon is
\* followed by a space
IdLine(indent) ==
  IF indent > 0 THEN <<"\"id\"", ":", " ", "\"user-1\"">>
  ELSE <<"\"id\"", ":", "\"user-1\"">>

\* saveUserTasks: JSON.stringify(data, null, 2)
SavedIdLine == IdLine(2)

\* grep -o '"id":"[^"]*"' finds an id in the line
GrepId(line) ==
  \E i \in 1..(Len(line) - 2) :
    line[i] = "\"id\"" /\ line[i + 1] = ":" /\ line[i + 2] = "\"user-1\""

\* get_next_user_task prints a task id: with jq the first task that is
\* ASSIGNED or PENDING, without jq the first id grep finds in the file
GetNextUserTask(a) ==
  IF a.jq THEN a.userTasks > 0
  ELSE a.userTasks > 0 /\ GrepId(SavedIdLine)

\* the head of the loop up to the call of process_user_tasks or run_task:
\* found says whether find_next_task prints a task
LoopTop(found) ==
  /\ agent.pc = "top"
  /\ found => agent.pending > 0
  /\ agent' =
       IF agent.MAX_LOOPS > 0 /\ agent.loop_count >= agent.MAX_LOOPS
       THEN [agent EXCEPT !.pc = "done"]
       ELSE IF GetNextUserTask(agent)
       THEN [agent EXCEPT !.pc = "user"]
       ELSE IF found
       THEN Increment(agent, "loop_count", "run")
       ELSE [agent EXCEPT !.pc = AfterTask(agent)]
  /\ agent'.pc \in {"user", "run", "died"} =>
       agent.success_count + agent.fail_count < MaxExecuted
  /\ UNCHANGED <<serverVars, watchVars, client, pipe, dir, par, road>>

\* process_user_tasks returns: ok is its status, completed says whether the
\* PUT to the dashboard marked the user task COMPLETED; when its own
\* get_next_user_task finds no task any more it returns 0 at once
UserTaskEnd(ok, completed) ==
  /\ agent.pc = "user"
  /\ completed => ok
  /\ ~GetNextUserTask(agent) => ok /\ ~completed
  /\ LET a == IF GetNextUserTask(agent)
              THEN [agent EXCEPT !.executed = @ + 1,
                                 !.userTasks = IF completed THEN @ - 1 ELSE @]
              ELSE agent
     IN agent' = Increment(a, IF ok THEN "success_count" ELSE "fail_count",
                           AfterTask(a))
  /\ UNCHANGED <<serverVars, watchVars, client, pipe, dir, par, road>>

\* run_task returns: result is "locked" when the lock was not acquired, else
\* the status it gave the task; blocker says whether create_user_task added
\* a user task for a BLOCKED task
RunTaskEnd(result, blocker) ==
  /\ agent.pc = "run"
  /\ blocker => result = "BLOCKED" /\ agent.userTasks < MaxWaiting
  /\ LET a == [agent EXCEPT
                 !.executed = IF result = "locked" THEN @ ELSE @ + 1,
                 !.pending = IF result \in {"DONE", "BLOCKED"} THEN @ - 1 ELSE @,
                 !.userTasks = IF blocker THEN @ + 1 ELSE @]
     IN agent' = Increment(a, IF result = "DONE" THEN "success_count" ELSE "fail_count",
                           AfterTask(a))
  /\ UNCHANGED <<serverVars, watchVars, client, pipe, dir, par, road>>

\* sleep $LOOP_DELAY returns
Wake ==
  /\ agent.pc = "sleep"
  /\ agent' = [agent EXCEPT !.pc = "top"]
  /\ UNCHANGED <<serverVars, watchVars, client, pipe, dir, par, road>>

\* the dashboard adds a user task to .roadmap-user-tasks.json
UserTaskCreate ==
  /\ agent.userTasks < MaxWaiting
  /\ agent' = [agent EXCEPT !.userTasks = @ + 1]
  /\ UNCHANGED <<serverVars, watchVars, client, pipe, dir, par, road>>

\* the dashboard completes or deletes a user task
UserTaskRemove ==
  /\ agent.userTasks > 0
  /\ agent' = [agent EXCEPT !.userTasks = @ - 1]
  /\ UNCHANGED <<serverVars, watchVars, client, pipe, dir, par, road>>

\* the script started with any settings, on either kind of bash, with or
\* without jq, with any tasks waiting
AgentInit ==
  /\ ServerInit
  /\ file = NoFile
  /\ tail = InitTail
  /\ hist = InitHist
  /\ client = InitClient
  /\ pipe = InitPipe
  /\ dir = InitDir
  /\ par = InitPar
  /\ road = InitRoad
  /\ \E n \in 0..MaxLoopsSetting, single, errexit, jq \in BOOLEAN,
        u, p \in 0..MaxWaiting :
       agent = [InitAgent EXCEPT !.MAX_LOOPS = n, !.SINGLE_MODE = single,
                                 !.arithErrexit = errexit, !.jq = jq,
                                 !.userTasks = u, !.pending = p]

AgentNext ==
  \/ \E found \in BOOLEAN : LoopTop(found)
  \/ \E ok, completed \in BOOLEAN : UserTaskEnd(ok, completed)
  \/ \E result \in {"locked", "DONE", "BLOCKED", "PENDING"}, blocker \in BOOLEAN :
       RunTaskEnd(result, blocker)
  \/ Wake
  \/ UserTaskCreate
  \/ UserTaskRemove

SpecAgent == AgentInit /\ [][AgentNext]_vars

(* ---------------------- instances in parallel -------------------------- *)
(* Instance i runs as process i.  Each command of the script that reads or   *)
(* changes LOCK_DIR or ROADMAP.md is one step; the test of the pid file and  *)
(* the cat that reads it are taken as one.                                   *)

Alive(i) == par.inst[i].pc \notin {"off", "dead"}

SetInst(i, rec) == [par EXCEPT !.inst[i] = rec]

\* the next lock directory of the for loop, or the end of cleanup_stale_locks
NextLock(in) ==
  [in EXCEPT !.todo = @ \ {in.task}, !.task = 0, !.seen = NoPid, !.pc = "cleanup"]

\* main is started: ensure_dirs, then the glob of cleanup_stale_locks; the
\* instances are numbered in the order they are started
InstStart(i) ==
  /\ par.inst[i].pc = "off"
  /\ \A j \in Insts : j < i => par.inst[j].pc # "off"
  /\ par' = SetInst(i, [par.inst[i] EXCEPT !.pc = "cleanup",
                          !.todo = {t \in Tasks : par.lock[t].exists}])
  /\ UNCHANGED <<serverVars, watchVars, client, pipe, dir, agent, road>>

\* [ -d "$lock_dir" ], [ -f "$pid_file" ] and pid=$(cat "$pid_file")
CleanupLook(i) ==
  /\ par.inst[i].pc = "cleanup"
  /\ LET in == par.inst[i]
     IN par' = IF in.todo = {}
               THEN SetInst(i, [in EXCEPT !.pc = "find"])
               ELSE LET t == CHOOSE x \in in.todo : \A y \in in.todo : x <= y
                    IN IF par.lock[t].exists /\ par.lock[t].pid # NoPid
                       THEN SetInst(i, [in EXCEPT !.task = t, !.pc = "ckill",
                                                  !.seen = par.lock[t].pid])
                       ELSE SetInst(i, NextLock([in EXCEPT !.task = t]))
  /\ UNCHANGED <<serverVars, watchVars, client, pipe, dir, agent, road>>

\* if ! kill -0 "$pid"
CleanupKill(i) ==
  /\ par.inst[i].pc = "ckill"
  /\ LET in == par.inst[i]
     IN par' = IF Alive(in.seen)
               THEN SetInst(i, NextLock(in))
               ELSE SetInst(i, [in EXCEPT !.pc = "crm"])
  /\ UNCHANGED <<serverVars, watchVars, client, pipe, dir, agent, road>>

\* rm -rf "$lock_dir"
CleanupRm(i) ==
  /\ par.inst[i].pc = "crm"
  /\ LET in == par.inst[i]
     IN par' = [SetInst(i, NextLock(in)) EXCEPT !.lock[in.task] = NoLock]
  /\ UNCHANGED <<serverVars, watchVars, client, pipe, dir, agent, road>>

\* find_next_task prints task t, the first one that is PENDING, then
\* ((loop_count++)) with loop_count 0
FindNext(i, t) ==
  /\ par.inst[i].pc = "find"
  /\ par.status[t] = "PENDING"
  /\ \A u \in Tasks : u < t => par.status[u] # "PENDING"
  /\ par' = SetInst(i, IF par.arithErrexit
                       THEN [OffInst EXCEPT !.pc = "dead"]
                       ELSE [par.inst[i] EXCEPT !.pc = "mkdir", !.task = t])
  /\ UNCHANGED <<serverVars, watchVars, client, pipe, dir, agent, road>>

\* acquire_lock: mkdir "$lock_file"
AcquireMkdir(i) ==
  /\ par.inst[i].pc = "mkdir"
  /\ LET in == par.inst[i]
     IN par' = IF ~par.lock[in.task].exists
               THEN [SetInst(i, [in EXCEPT !.pc = "echo", !.holds = @ \cup {in.task}])
                       EXCEPT !.lock[in.task] = [exists |-> TRUE, pid |-> NoPid]]
               ELSE SetInst(i, [in EXCEPT !.pc = "find", !.task = 0])
  /\ UNCHANGED <<serverVars, watchVars, client, pipe, dir, agent, road>>

\* acquire_lock: echo $$ > "$lock_file/pid"; return 0
AcquireEcho(i) ==
  /\ par.inst[i].pc = "echo"
  /\ LET in == par.inst[i]
         p == SetInst(i, [in EXCEPT !.pc = "progress"])
     IN par' = IF par.lock[in.task].exists
               THEN [p EXCEPT !.lock[in.task].pid = i]
               ELSE p
  /\ UNCHANGED <<serverVars, watchVars, client, pipe, dir, agent, road>>

\* update_task_status: sed -i reads ROADMAP.md; under DRY_RUN it only logs
\* and the caller is at pc next
UpdateTaskStatus(in, status, next) ==
  IF par.DRY_RUN THEN [in EXCEPT !.pc = next]
  ELSE [in EXCEPT !.pc = "sed", !.snap = par.status, !.new = status]

\* run_task: update_task_status "$task_id" "IN_PROGRESS"; under DRY_RUN
\* run_task goes on to release_lock and returns
SetInProgress(i) ==
  /\ par.inst[i].pc = "progress"
  /\ par' = SetInst(i, UpdateTaskStatus(par.inst[i], "IN_PROGRESS", "release"))
  /\ UNCHANGED <<serverVars, watchVars, client, pipe, dir, agent, road>>

\* update_task_status: sed -i puts what it read, with the status line of the
\* task changed, in the place of ROADMAP.md
SedWrite(i) ==
  /\ par.inst[i].pc = "sed"
  /\ LET in == par.inst[i]
     IN par' = [SetInst(i, [in EXCEPT !.snap = <<>>, !.new = "none",
                              !.pc = IF in.new = "IN_PROGRESS" THEN "work"
                                     ELSE "release"])
                  EXCEPT !.status = [in.snap EXCEPT ![in.task] = in.new]]
  /\ UNCHANGED <<serverVars, watchVars, client, pipe, dir, agent, road>>

\* run_task: the worker returns (done, blocked, failed or timed out) and
\* update_task_status "$task_id" "$task_result"
WorkEnd(i, result) ==
  /\ par.inst[i].pc = "work"
  /\ par' = SetInst(i, UpdateTaskStatus(par.inst[i], result, "release"))
  /\ UNCHANGED <<serverVars, watchVars, client, pipe, dir, agent, road>>

\* release_lock that leaves the lock directory
ReleaseLockKeeps(i) ==
  /\ par.inst[i].pc = "release"
  /\ par' = SetInst(i, [par.inst[i] EXCEPT !.pc = "find", !.task = 0])
  /\ UNCHANGED <<serverVars, watchVars, client, pipe, dir, agent, road>>

\* release_lock: rm -rf "$lock_file", then the loop goes on
ReleaseLock(i) ==
  /\ par.inst[i].pc = "release"
  /\ LET in == par.inst[i]
     IN par' = [SetInst(i, [in EXCEPT !.pc = "find", !.task = 0,
                                      !.holds = @ \ {in.task}])
                  EXCEPT !.lock[in.task] = NoLock]
  /\ UNCHANGED <<serverVars, watchVars, client, pipe, dir, agent, road>>

\* the instance is killed (the script traps no signal)
InstKill(i) ==
  /\ Alive(i)
  /\ par' = SetInst(i, [OffInst EXCEPT !.pc = "dead"])
  /\ UNCHANGED <<serverVars, watchVars, client, pipe, dir, agent, road>>

\* no instance started yet, on either kind of bash
ParInit ==
  /\ ServerInit
  /\ file = NoFile
  /\ tail = InitTail
  /\ hist = InitHist
  /\ client = InitClient
  /\ pipe = InitPipe
  /\ dir = InitDir
  /\ agent = InitAgent
  /\ \E errexit, dry \in BOOLEAN :
       par = [InitPar EXCEPT !.arithErrexit = errexit, !.DRY_RUN = dry]
  /\ road = InitRoad

\* the steps of instance i but a kill
InstStep(i) ==
  \/ InstStart(i)
  \/ CleanupLook(i)
  \/ CleanupKill(i)
  \/ CleanupRm(i)
  \/ \E t \in Tasks : FindNext(i, t)
  \/ AcquireMkdir(i)
  \/ AcquireEcho(i)
  \/ SetInProgress(i)
  \/ SedWrite(i)
  \/ \E result \in {"DONE", "BLOCKED", "PENDING"} : WorkEnd(i, result)
  \/ ReleaseLock(i)

ParNext == \E i \in Insts : InstStep(i) \/ InstKill(i)

SpecPar == ParInit /\ [][ParNext]_vars

\* the instance is killed outside run_task
InstKillIdle(i) ==
  /\ par.inst[i].holds = {}
  /\ InstKill(i)

\* two instances that no signal ends inside run_task
RunInsts == {i \in Insts : i <= 2}
RunNext == \E i \in RunInsts : InstStep(i) \/ InstKillIdle(i)

SpecRun == ParInit /\ [][RunNext]_vars

(* ------------------------- the roadmap parser --------------------------- *)
(* get_task_status, get_task_priority and get_task_dependencies read the     *)
(* fields of a task section; a priority is the digit after P.                *)

\* the statuses and priorities the sections have at first
SampleStatuses == {"PENDING", "DONE", "BLOCKED"}
SamplePriorities == {0, 3, 4}

\* check_dependencies
CheckDependencies(t) == \A d \in road.deps[t] : road.status[d] = "DONE"

\* the inner loop of find_next_task, from section t on
RECURSIVE ScanTasks(_, _)
ScanTasks(priority, t) ==
  IF t > NSections THEN 0
  ELSE IF /\ road.status[t] = "PENDING"
          /\ road.priority[t] = priority
          /\ CheckDependencies(t)
       THEN t
       ELSE ScanTasks(priority, t + 1)

\* the outer loop of find_next_task over the priorities it lists
RECURSIVE ScanPriorities(_)
ScanPriorities(priorities) ==
  IF priorities = <<>> THEN 0
  ELSE IF ScanTasks(Head(priorities), 1) # 0
       THEN ScanTasks(Head(priorities), 1)
       ELSE ScanPriorities(Tail(priorities))

\* find_next_task: for priority in P0 P1 P2 P3
FindNextTask == ScanPriorities(<<0, 1, 2, 3>>)

\* task_id=$(find_next_task)
FindNextTaskCall ==
  /\ road.pc = "idle"
  /\ road' = [road EXCEPT !.pc = "found", !.found = FindNextTask]
  /\ UNCHANGED <<serverVars, watchVars, client, pipe, dir, agent, par>>

\* the loop comes round again
FindNextTaskAgain ==
  /\ road.pc = "found"
  /\ road' = [road EXCEPT !.pc = "idle", !.found = 0]
  /\ UNCHANGED <<serverVars, watchVars, client, pipe, dir, agent, par>>

\* update_task_status: the status line of section t is rewritten
SectionStatusSet(t, status) ==
  /\ road.status[t] # status
  /\ road' = [road EXCEPT !.status[t] = status]
  /\ UNCHANGED <<serverVars, watchVars, client, pipe, dir, agent, par>>

\* a ROADMAP.md with any statuses, priorities and dependencies
RoadInit ==
  /\ ServerInit
  /\ file = NoFile
  /\ tail = InitTail
  /\ hist = InitHist
  /\ client = InitClient
  /\ pipe = InitPipe
  /\ dir = InitDir
  /\ agent = InitAgent
  /\ par = InitPar
  /\ \E st \in [Sections -> SampleStatuses], pr \in [Sections -> SamplePriorities],
        dp \in [Sections -> SUBSET Sections] :
       road = [InitRoad EXCEPT !.status = st, !.priority = pr, !.deps = dp]

RoadNext ==
  \/ FindNextTaskCall
  \/ FindNextTaskAgain
  \/ \E t \in Sections, status \in SampleStatuses : SectionStatusSet(t, status)

SpecRoad == RoadInit /\ [][RoadNext]_vars

(* ============================== claims ================================= *)
\* the children of start() whose process is alive
ManagedAlive == {h \in Handles : child[h].spawned /\ os[h] = "agent"}

\* C1: under every interleaving of start, stop and exit, at most one process
\* spawned by start() is alive at any time.
C1_AtMostOneManagedAlive == Cardinality(ManagedAlive) <= 1

\* the tracked child is Running: spawned, not exited, not asked to stop
TrackedRunning ==
  /\ agentProcess # 0
  /\ child[agentProcess].spawned
  /\ ~child[agentProcess].exited
  /\ ~child[agentProcess].killed

LiveExternal == {p \in ExtPids : os[p] = "agent"}

\* C3: when an external agent process is running while the enumeration of a
\* start() is made, the pid handed to the handler is that of a running
\* external agent; and a start handed such a pid is answered 400 with it and
\* spawns nothing, also when no managed process is tracked.
C3_StartFailsOnExternal ==
  [][\A r \in Reqs :
       /\ (req[r].pc = "find" /\ req'[r].pc = "decide" /\ LiveExternal # {})
          => req'[r].extPid \in LiveExternal
       /\ (req[r].pc = "decide" /\ req'[r].pc = "done" /\ req[r].extPid # 0)
          => /\ last' = Resp("start", 400, "external", req[r].extPid)
             /\ child' = child /\ os' = os /\ agentProcess' = agentProcess]_vars

\* the tracked process has been asked to stop, its kill timer is pending and
\* it still runs
Stopped ==
  /\ agentProcess # 0 /\ os[agentProcess] = "agent"
  /\ \E t \in timers : t.kind = "managed" /\ t.target = agentProcess

C5_ForcedKillAfterGrace ==
  [][\A t \in timers :
       (t \notin timers' /\ t.kind = "managed" /\ os[t.target] = "agent")
       => <<t.target, "KILL">> \in sent']_vars

\* C6: a stop naming an external pid that is not a live process is answered
\* 404, sends no signal, schedules no kill timer and leaves the managed
\* process as it was.
C6_StopUnknownPid ==
  [][\A r \in Reqs :
       (/\ req[r].pc \in {"check", "term"} /\ req'[r] # req[r]
        /\ os[req[r].arg] # "agent")
       => /\ req'[r].pc = "done"
          /\ last' = Resp("stop", 404, "notfound", req[r].arg)
          /\ sent' = {} /\ timers' = timers
          /\ child' = child /\ os' = os /\ agentProcess' = agentProcess]_vars

C6_Witness ==
  /\ TrackedRunning /\ os[agentProcess] = "agent"
  /\ timers = {}
  /\ last.op = "stop" /\ last.code = 404

\* the data of a sequence of events, joined
RECURSIVE Joined(_)
Joined(evs) == IF evs = <<>> THEN <<>> ELSE Head(evs).data \o Joined(Tail(evs))

\* the file was there when the watch began, has only been appended to since,
\* and every read of it succeeded
OnlyGrew == tail.opened /\ file.exists /\ hist.grewOnly /\ hist.faults = 0

\* the events written are content events only, all but a first one (the
\* content found when the watch began) flagged new, and together they are the
\* file up to the recorded offset: nothing is written twice
NothingTwice ==
  /\ \A i \in DOMAIN tail.out :
       /\ tail.out[i].kind = "data"
       /\ tail.out[i].data # <<>>
       /\ ~tail.out[i].isNew => i = 1
  /\ tail.position <= Len(file.content)
  /\ Joined(tail.out) = SubSeq(file.content, 1, tail.position)

\* the latest stat of an open session saw the file as long as it is now
PolledCurrent ==
  ~tail.isClosed /\ tail.statBusy = 1 /\ tail.statSize = Len(file.content)

\* C7: for a watched file that only grows, the events written are exactly the
\* appended parts, in order, each once (nothing at or before the recorded
\* offset is written again), and once a poll has seen the file as it is, all
\* of the file has been written.
C7_ExactlyAppendedSuffixes ==
  OnlyGrew => /\ NothingTwice
              /\ PolledCurrent => tail.position = Len(file.content)

\* what of C7 the watcher keeps: nothing is written twice or out of order
C7_NothingTwice == OnlyGrew => NothingTwice

\* the new events of a step
Written == SubSeq(tail'.out, Len(tail.out) + 1, Len(tail'.out))

\* a poll of an open session finds the file smaller than at the poll before,
\* and the read that follows succeeds
PollSeesShrink ==
  /\ tail.listeners > 0 /\ tail'.listeners = tail.listeners
  /\ ~tail.isClosed
  /\ tail.statBusy = 1 /\ file.exists
  /\ Len(file.content) < tail.statSize /\ tail'.statSize = Len(file.content)
  /\ file' = file /\ hist' = hist

\* C8: when a poll finds the file smaller than at the poll before, the
\* truncation notice is written, then the whole current content (when there
\* is any), nothing else, and the offset becomes the length of the file.
C8_ShrinkResetsAndResends ==
  [][PollSeesShrink =>
       /\ Written # <<>> /\ Written[1] = Notice("truncated")
       /\ file.content # <<>> =>
            Len(Written) >= 2 /\ Written[2] = Data(file.content, TRUE)
       /\ \A i \in DOMAIN Written :
            Written[i] \in {Notice("truncated"), Data(file.content, TRUE)}
       /\ tail'.position = Len(file.content)]_vars

C8_Witness ==
  /\ tail.opened /\ ~tail.isClosed /\ file.exists /\ hist.faults = 0
  /\ file.content # <<>>
  /\ Len(tail.out) >= 2
  /\ tail.out[Len(tail.out) - 1] = Notice("truncated")
  /\ tail.out[Len(tail.out)] = Data(file.content, TRUE)
  /\ tail.position = Len(file.content)
  /\ tail.statBusy = 1 /\ tail.statSize = Len(file.content)

\* C9: once the watcher has seen the watched file, which it had found with
\* content before, disappear, and while the
\* subscriber stays connected and the file stays away, either a retry is
\* pending or the "not found" notice has been written and the session is
\* closed.
C9_DisappearanceRetriedThenClosed ==
  (/\ tail.opened /\ tail.connected
   /\ tail.listeners > 0 /\ tail.statSize > 0 /\ tail.statBusy = -1
   /\ ~file.exists
   /\ tail.retryTimers = 0 /\ tail.readTimers = 0)
  => /\ tail.isClosed
     /\ \E i \in DOMAIN tail.out : tail.out[i] = Notice("notfound")

\* C10: the first event written to a subscriber is its status event.
C10_StatusFirst == \A s \in Subs : sub[s].out # <<>> => sub[s].out[1] = "status"

\* C11: a subscription that has been open for a heartbeat interval has been
\* written a ping event.
C11_HeartbeatEachInterval ==
  \A s \in Subs :
    (sub[s].connected /\ sub[s].age > 0)
    => \E i \in DOMAIN sub[s].out : sub[s].out[i] = "ping"

\* C12: once a subscriber has disconnected, its relay listeners are detached
\* and it has no listener on a log file and no logWatchers entry, whenever
\* the disconnect happened.
C12_DisconnectReleasesAll ==
  \A s \in Subs :
    (sub[s].pc # "closed" /\ ~sub[s].connected)
    => ~sub[s].listening /\ sub[s].statListener = 0 /\ ~sub[s].registered

C14_DisconnectLeavesOthers ==
  [][\A s \in Subs :
       (sub[s].connected /\ ~sub'[s].connected)
       => /\ \A t \in Subs \ {s} : sub'[t] = sub[t]
          /\ sent' = sent /\ os' = os /\ child' = child]_vars

(* ------------------------ process discovery ---------------------------- *)
\* an enumeration made for subscriber s returns in this step
Enumerated(s) ==
  \/ sub[s].pc = "find1" /\ sub'[s].pc = "find2"
  \/ sub[s].pc = "find2" /\ sub'[s].pc \in {"verify", "status"}

\* what that enumeration returned
Returned(s) == IF sub[s].pc = "find1" THEN sub'[s].allAgents ELSE sub'[s].agents

\* C15: verifyProcess is false for every pid that is not the pid of a live
\* process, and every record an enumeration returns carries the pid of a
\* process that is live when it returns.
C15_NoDeadPid ==
  [][/\ \A p \in Pids \cup {NaN} :
          (p \notin Pids \/ os[p] \in {"free", "dead"}) => ~VerifyProcess(p)
     /\ \A s \in Subs :
          Enumerated(s)
          => \A i \in DOMAIN Returned(s) :
               /\ Returned(s)[i].pid \in Pids
               /\ os[Returned(s)[i].pid] \notin {"free", "dead"}]_vars

\* C16: verifyProcess accepts a pid only when the process that has it is an
\* agent script or one of its claude processes.
C16_VerifyRejectsRecycled ==
  \A p \in Pids : VerifyProcess(p) => os[p] \in {"agent", "worker"}

\* C17: when the commands of an enumeration fail after an enumeration that
\* succeeded, the failing one returns what the one before it returned.
C17_FailureKeepsLastGood ==
  [][\A s \in Subs :
       (/\ sub[s].pc = "find2" /\ Enumerated(s)
        /\ ~sub[s].failed /\ sub'[s].failed)
       => Returned(s) = sub[s].allAgents]_vars

\* C18: two enumerations made one right after the other by the same handler,
\* both succeeding, return the same records, whatever happens to the
\* processes between them.
C18_SameWithinTTL ==
  [][\A s \in Subs :
       (/\ sub[s].pc = "find2" /\ Enumerated(s)
        /\ ~sub[s].failed /\ ~sub'[s].failed)
       => Returned(s) = sub[s].allAgents]_vars

C20_UniquePidsMarkedExternal ==
  LET res == FindRunningAgents
  IN /\ \A i, j \in DOMAIN res : i # j => res[i].pid # res[j].pid
     /\ \A i \in DOMAIN res :
          (agentProcess = 0 \/ res[i].pid # agentProcess) => res[i].isExternal
     /\ \A s \in Subs : \A i, j \in DOMAIN sub[s].agents :
          i # j => sub[s].agents[i].pid # sub[s].agents[j].pid

\* an enumeration has returned while a claude process is reached twice: as a
\* child of the agent script and from its own pgrep line
C20_Witness ==
  /\ ScriptPids # {}
  /\ \E p \in ClaudePids : p \in Children(MinPid(ScriptPids))
  /\ Len(AllProcesses) > Len(FindRunningAgents)
  /\ \E s \in Subs : sub[s].agents # <<>> /\ sub[s].agents = FindRunningAgents

(* --------------------------- status query ------------------------------ *)
\* no process matches a pgrep pattern
NoAgentProcess == ScriptPids = {} /\ ClaudePids = {}

\* C21: with no process matching an agent pattern, an enumeration returns the
\* empty list; and a status query made while no managed process is tracked
\* and answered while none is tracked and no process matches answers
\* running = false, pid null (and lists no external agent).
C21_NothingRunningReported ==
  [][\A r \in Reqs :
       /\ (req[r].pc = "sfind" /\ req'[r].pc = "sverify" /\ NoAgentProcess)
          => req'[r].agents = <<>>
       /\ (/\ req[r].pc = "sanswer" /\ req'[r].pc = "done"
           /\ ~req[r].isRunning /\ req[r].agents = <<>> /\ req[r].extPid = 0
           /\ agentProcess = 0 /\ NoAgentProcess)
          => last' = StatusResp(FALSE, 0, FALSE, <<>>)
       /\ (req[r].pc = "idle" /\ req'[r].pc = "sfind" /\ agentProcess = 0)
          => ~req'[r].isRunning]_vars

\* a status query has answered that nothing runs, after a managed process
\* has run and ended
C21_Witness ==
  /\ last = StatusResp(FALSE, 0, FALSE, <<>>)
  /\ agentProcess = 0 /\ NoAgentProcess
  /\ \E h \in Handles : child[h].exited

(* ------------------------- the dashboard page -------------------------- *)
\* C22: the exit of a managed process writes an exit event to every stream
\* that is open then; and the page that handles an exit event schedules a
\* status query and keeps its stream as it is until that query is answered.
C22_ExitThenRequery ==
  [][/\ (\E h \in Handles : ~child[h].exited /\ child'[h].exited)
        => \A s \in Subs :
             (sub[s].listening /\ sub[s].connected /\ Len(sub[s].out) < MaxOut)
             => sub'[s].out = Append(sub[s].out, "exit")
     /\ (~client.afterExit /\ client'.afterExit)
        => /\ client'.statsTimer
           /\ client'.readyState = client.readyState]_vars

RECURSIVE Pow2(_)
Pow2(n) == IF n = 0 THEN 1 ELSE 2 * Pow2(n - 1)

\* C27: the delay of the reconnect scheduled for attempt n is 2 s doubled
\* with every attempt and capped at 10 s, the attempts counted never exceed
\* 10, and the error handler schedules no reconnect after the 10th.
C27_ReconnectBackoff ==
  /\ client.reconnectAttempts <= maxReconnectAttempts
  /\ client.reconnectTimeout <= 10000
  /\ client.reconnectTimeout # 0
     => client.reconnectTimeout = Min(1000 * Pow2(client.reconnectAttempts), 10000)

(* ------------------------ lifecycle of a process ----------------------- *)
\* the lifecycle state the server holds for the process of handle h: Running
\* while agentProcess is h and not killed, Stopping from its kill() to its
\* exit event, else Stopped (Starting is the time a start request awaits
\* getExternalAgentPid(), before there is a process)
LifeState(h) ==
  IF ~child[h].spawned \/ child[h].exited THEN "Stopped"
  ELSE IF child[h].killed THEN "Stopping"
  ELSE IF agentProcess = h THEN "Running"
  ELSE "Stopped"

\* C23: a process is Running from the start that spawned it and answered
\* success, with a start event written to the open streams; it leaves
\* Running only for Stopping, by a stop, or for Stopped, by its own exit; it
\* leaves Stopping only for Stopped, by its own exit; and it leaves Stopped
\* only for Running, in the start that spawns it.
C23_LifecycleOrder ==
  [][\A h \in Handles :
       /\ (last'.op = "start" /\ last'.code = 200 /\ last'.pid = h)
          => /\ LifeState(h) = "Stopped" /\ LifeState(h)' = "Running"
             /\ \A s \in Subs :
                  (sub[s].listening /\ sub[s].connected /\ Len(sub[s].out) < MaxOut)
                  => sub'[s].out = Append(sub[s].out, "start")
       /\ (LifeState(h) = "Running" /\ LifeState(h)' # "Running")
          => \/ LifeState(h)' = "Stopping" /\ last'.op = "stop"
             \/ LifeState(h)' = "Stopped" /\ child'[h].exited
       /\ (LifeState(h) = "Stopping" /\ LifeState(h)' # "Stopping")
          => LifeState(h)' = "Stopped" /\ child'[h].exited
       /\ (LifeState(h) = "Stopped" /\ LifeState(h)' # "Stopped")
          => LifeState(h)' = "Running" /\ ~child[h].spawned]_vars

(* ------------------------- relay of the output ------------------------- *)
\* the server reads a chunk in this step
Relayed(h, stream) == Len(pipe'.q[h][stream]) < Len(pipe.q[h][stream])

\* every chunk read is written, with the name of its pipe, to every
\* subscriber whose stream is open
RelayedToAll ==
  \A h \in Handles, stream \in {"stdout", "stderr"} :
    Relayed(h, stream)
    => \A s \in Subs :
         (sub[s].pc # "closed" /\ sub[s].connected)
         => /\ Len(pipe'.got[s]) = Len(pipe.got[s]) + 1
            /\ pipe'.got[s][Len(pipe'.got[s])].type = stream
            /\ pipe'.got[s][Len(pipe'.got[s])].n \in
                 {pipe.q[h][stream][i] : i \in DOMAIN pipe.q[h][stream]}

\* C24 as stated: every chunk is relayed with its tag to every open
\* subscriber, and each subscriber is written the chunks in the order they
\* were produced.
C24_RelayInProductionOrder ==
  [][/\ RelayedToAll
     /\ \A s \in Subs : \A i, j \in DOMAIN pipe'.got[s] :
          i < j => pipe'.got[s][i].n < pipe'.got[s][j].n]_vars

\* C24 amended: ... and each subscriber is written the chunks of one pipe in
\* the order they were produced.
C24_RelayInStreamOrder ==
  [][/\ RelayedToAll
     /\ \A s \in Subs : \A i, j \in DOMAIN pipe'.got[s] :
          (i < j /\ pipe'.got[s][i].type = pipe'.got[s][j].type)
          => pipe'.got[s][i].n < pipe'.got[s][j].n]_vars

\* two subscribers have been written chunks of both pipes, one of them
\* after a chunk produced later
C24_Witness ==
  /\ \A s \in RelaySubs : Len(pipe.got[s]) >= 2
  /\ \E s \in Subs : \E i, j \in DOMAIN pipe.got[s] :
       /\ i < j /\ pipe.got[s][i].n > pipe.got[s][j].n
       /\ pipe.got[s][i].type # pipe.got[s][j].type
  /\ \E s \in Subs : \E i, j \in DOMAIN pipe.got[s] :
       i < j /\ pipe.got[s][i].type = pipe.got[s][j].type

\* C25: a tail session has at most one polling listener on its file, whatever
\* disappearances, retries and re-registrations came before, and no poll
\* writes the same event to it twice.
C25_OnePollingListener ==
  [][/\ tail'.listeners <= 1
     /\ \A i, j \in DOMAIN Written : Written[i] = Written[j] => i = j]_vars

\* a poll calls the listeners and their read of the file, which is there,
\* fails
PollReadFails ==
  /\ tail.opened /\ tail.listeners > 0
  /\ <<tail'.statBusy, tail'.statSize>> # <<tail.statBusy, tail.statSize>>
  /\ hist'.faults = hist.faults + 1 /\ file'.exists

\* a poll of an open session finds the file larger than at the poll before,
\* and the read that follows succeeds
PollSeesGrowth ==
  /\ tail.listeners > 0 /\ tail'.listeners = tail.listeners
  /\ ~tail.isClosed
  /\ tail.statBusy = 1 /\ file.exists
  /\ Len(file.content) > tail.statSize /\ tail'.statSize = Len(file.content)
  /\ file' = file /\ hist' = hist

\* C26: a read that fails during a poll while the file is there leaves the
\* session open with its listeners and its registration, and a later poll
\* that finds the file grown writes all of the file from the recorded offset
\* on and moves the offset to the end of the file.
C26_ReadFailureKeepsWatching ==
  [][/\ PollReadFails =>
          /\ tail'.isClosed = tail.isClosed
          /\ tail'.listeners = tail.listeners
          /\ tail'.registered = tail.registered
          /\ tail'.retryTimers = tail.retryTimers
     /\ (PollSeesGrowth /\ hist.pollErr) =>
          /\ tail'.position = Len(file.content)
          /\ Len(file.content) > tail.position =>
               /\ Written # <<>>
               /\ Written[1] = Data(NewContent(file.content, tail.position), TRUE)]_vars

\* a read failed during a poll, the file grew afterwards, and the session has
\* been written the whole file
C26_Witness ==
  /\ hist.pollErr /\ ~tail.isClosed /\ tail.listeners = 1 /\ file.exists
  /\ Len(file.content) = 2
  /\ tail.position = 2
  /\ tail.out # <<>> /\ tail.out[Len(tail.out)] = Data(file.content, TRUE)
  /\ tail.statBusy = 1 /\ tail.statSize = 2

\* const isCurrentlyActive = age < 30000
IsCurrentlyActive(d) == d.age < CurrentlyActiveAge

\* the rank of a descriptor: 2 currently active, 1 active, 0 neither
Rank(d) == IF IsCurrentlyActive(d) THEN 2 ELSE IF d.isActive THEN 1 ELSE 0

\* C28: in the listing, currently-active files come before the others, then
\* active files before inactive ones, and within a rank the file modified
\* later comes first; the file picked to watch is the first of the listing.
C28_ListingOrder ==
  /\ \A i, j \in DOMAIN dir.listing :
       i < j => \/ Rank(dir.listing[i]) > Rank(dir.listing[j])
                \/ /\ Rank(dir.listing[i]) = Rank(dir.listing[j])
                   /\ dir.listing[i].mtime >= dir.listing[j].mtime
  /\ dir.pc = "watching" => dir.picked = dir.listing[1].filename

\* a listing of three files, one of each rank, that readdir returned in
\* another order, and the first of it picked
C28_Witness ==
  /\ dir.pc = "watching" /\ Len(dir.listing) = 3
  /\ Rank(dir.listing[1]) = 2 /\ Rank(dir.listing[2]) = 1 /\ Rank(dir.listing[3]) = 0
  /\ dir.listing[1].filename # 1
  /\ dir.picked = dir.listing[1].filename

\* C29: a run with MAX_LOOPS = n > 0 executes at most n tasks, whatever their
\* outcomes and whatever user tasks are waiting.
C29_AtMostMaxLoopsTasks ==
  agent.MAX_LOOPS > 0 => agent.executed <= agent.MAX_LOOPS

\* C30: no two live instances hold the lock of the same task, and an
\* instance that sets a task IN_PROGRESS or runs its worker has that task's
\* lock directory, with its own pid in it, also while other instances run
\* cleanup_stale_locks.
C30_LockMutualExclusion ==
  /\ \A t \in Tasks :
       Cardinality({i \in Insts : Alive(i) /\ t \in par.inst[i].holds}) <= 1
  /\ \A i \in Insts :
       par.inst[i].pc \in {"progress", "work"}
       => /\ par.lock[par.inst[i].task].exists
          /\ par.lock[par.inst[i].task].pid = i

\* a section find_next_task may return
Eligible(t) == road.status[t] = "PENDING" /\ CheckDependencies(t)

\* C31: find_next_task returns a task whenever some task is PENDING with all
\* its dependencies DONE; the task returned is such a task and none of them
\* has a more urgent priority; it returns empty only when there is none.
C31_FindNextTask ==
  [][(road.pc = "idle" /\ road'.pc = "found") =>
       /\ (\E t \in Sections : Eligible(t)) => road'.found # 0
       /\ road'.found # 0 =>
            /\ Eligible(road'.found)
            /\ \A t \in Sections :
                 Eligible(t) => road.priority[t] >= road.priority[road'.found]]_vars

\* an iteration of the main loop that passes the loop limit begins
IterationBegins ==
  /\ agent.pc = "top" /\ agent'.pc # "top"
  /\ ~(agent.MAX_LOOPS > 0 /\ agent.loop_count >= agent.MAX_LOOPS)

\* C32: an iteration that begins while a user task is ASSIGNED or PENDING
\* goes to process_user_tasks and does not run a roadmap task.
C32_UserTasksFirst ==
  [][(IterationBegins /\ agent.userTasks > 0) => agent'.pc = "user"]_vars

\* an instance is working on task t: it is inside run_task for it, past
\* acquire_lock
WorkingOn(i, t) ==
  /\ par.inst[i].task = t
  /\ par.inst[i].pc \in {"progress", "sed", "work"}

\* C33: a task is never left IN_PROGRESS once no agent is working on it: when
\* the run_task that acquired its lock has finished, its status is DONE,
\* BLOCKED or PENDING.
C33_NoTaskLeftInProgress ==
  \A t \in Tasks :
    par.status[t] = "IN_PROGRESS" => \E i \in Insts : WorkingOn(i, t)

\* C34: an instance that is out of run_task holds no lock: no task is in its
\* holds and no lock directory carries its pid.
C34_LockReleasedOnReturn ==
  \A i \in Insts :
    par.inst[i].pc = "find"
    => /\ par.inst[i].holds = {}
       /\ \A t \in Tasks : ~(par.lock[t].exists /\ par.lock[t].pid = i)

\* an instance has run a task to its end and is back in the loop, also one
\* that ran it under DRY_RUN
C34_Witness ==
  /\ \E i \in Insts, t \in Tasks :
       /\ par.inst[i].pc = "find"
       /\ par.status[t] = "DONE"
       /\ ~par.lock[t].exists
  /\ ~par.DRY_RUN

\* C35: the exit of a managed process clears agentProcess only if it still
\* points to that process: when agentProcess holds another child, the exit
\* handler of the old one leaves it as it is.
C35_ExitKeepsNewerReference ==
  [][\A h \in Handles :
       (~child[h].exited /\ child'[h].exited /\ agentProcess # h)
       => agentProcess' = agentProcess]_vars

\* C36: the forced-kill timer of a stop() of the managed process sends
\* SIGKILL to no other process than the one the stop had signalled.
C36_KillTimerHitsItsTarget ==
  [][\A t \in timers \ timers' :
       t.kind = "managed"
       => \A s \in sent' : s[2] = "KILL" => s[1] = t.target]_vars

\* C37: once cleanup has run (isClosed), the session writes no further event
\* to its subscriber, whatever retry timer or poll callback runs afterwards.
C37_NoEventAfterClose ==
  [][tail.isClosed => tail'.out = tail.out]_vars

\* the retry timer of readExisting has run after cleanup and has read a file
\* with content: position is set and nothing was written
C37_Witness ==
  /\ tail.isClosed
  /\ tail.position > 0
  /\ tail.out = <<>>

\* C38: the page has at most one EventSource that is not closed and at most
\* one pending reconnect timer, whatever the order of startLogStream,
\* stopLogStream, connection errors, timer callbacks and health checks; and
\* once stopLogStream has run (eventSource is null) no reconnect timer is
\* pending and reconnectAttempts is 0.
C38_OneStreamOneTimer ==
  /\ client.sources <= 1
  /\ client.timers <= 1
  /\ client.readyState = "none"
     => client.timers = 0 /\ client.reconnectAttempts = 0

\* a reconnect timer is pending while a later EventSource is connecting
C38_Witness ==
  /\ client.timers = 1
  /\ client.sources = 1
  /\ client.reconnectAttempts > 0

\* the processes spawned by start() whose exit event has not run
Managed == {h \in Handles : child[h].spawned /\ ~child[h].exited}

ManagedRunning ==
  {h \in Handles : child[h].spawned /\ os[h] = "agent" /\ ~child[h].killed}

\* C40: the shutdown handler leaves logWatchers empty and no listener of a
\* registered watcher on the log file, and sends SIGTERM to every managed
\* process that is running, before the server exits.
C40_ShutdownStopsAll ==
  [][(~Down /\ Down')
     => /\ \A s \in Subs : ~sub'[s].registered
        /\ \A s \in Subs : sub[s].registered => sub'[s].statListener = 0
        /\ \A h \in ManagedRunning : <<h, "TERM">> \in sent']_vars


====
